---------------------------- MODULE Spec2Model ----------------------------
(***************************************************************************)
(* A model of the wallet engine of libcoin (src/src/btcWallet/wallet.cpp): *)
(* the coin ledger view (mapWallet), the confirmation walk, coin           *)
(* selection, transaction creation and commit, and the key pool.           *)
(*                                                                         *)
(* Conventions.  A transaction id (uint256 hash) is a number of TxIds; the *)
(* null hash is 0.  An outpoint (hash, n) is the pair <<hash, n>>; output  *)
(* positions are 1-based here where the code counts from 0.  Amounts are   *)
(* small integers in units in which CENT is 2.                             *)
(***************************************************************************)
EXTENDS Integers, Sequences, FiniteSets, TLC

\* ------------------------------------------------------------- bounds
\* Number of transaction ids of the universe (wallet records are among them).
NumTx == 3
\* Largest value of an output drawn for a wallet record.
MaxValue == 3
\* Largest target value handed to the coin selector.
MaxTarget == 5
\* Number of randomized trials of the subset-sum loop that are enumerated.
\* The code runs 1000; a trial's outcome depends on the earlier trials only
\* through nBest, so the outcomes of any number of trials are those of a few.
MaxRep == 2
\* Number of callers that reserve keys from the key pool.
NumCallers == 2
\* Largest value of the -keypool argument.
MaxPoolTarget == 1
\* Number of keys GenerateNewKey may produce in a run.
MaxKeys == 4
\* Largest amount a send flow pays.
MaxSend == 1
\* The most master key records a wallet starts with.
MaxMasterKeys == 2
\* The most elements of a serialized container.
MaxLen == 3

\* -------------------------------------------------- program constants
\* One cent, the dust threshold, in the model's unit.
CENT == 2

TxIds == 1..NumTx
NullHash == 0

VARIABLES
    mapWallet,      \* Wallet::mapWallet: hash -> CWalletTx
    blockChain,     \* the ledger collaborator's answers (_blockChain)
    sel,            \* the last coin-selection call: its arguments and its result
    conf,           \* the last IsConfirmed call: the record's hash and the result
    setKeyPool,     \* Wallet::setKeyPool: the indices available for reservation
    poolDb,         \* the durable key pool records: index -> key (CWalletDB "pool")
    nKeys,          \* the number of keys GenerateNewKey has produced; key k is the k-th
    fLocked,        \* IsLocked(): the key store holds no decrypted master key
    args,           \* the configuration: fFileBacked and the -keypool argument
    resv,           \* per caller, the reservation it holds (CReserveKey: nIndex, vchPubKey)
    kpLog,          \* the indices TopUpKeyPool has appended, in order (history)
    kpThrew,        \* whether a key pool operation has thrown runtime_error
    walletDb,       \* the durable transaction records: hash -> CWalletTx as last written
    vWalletUpdated, \* the hashes pushed for the UI, in order
    vchDefaultKey,  \* Wallet::vchDefaultKey
    mapAddressBook, \* Wallet::mapAddressBook: key of the address -> name
    mapRequestCount,\* Wallet::mapRequestCount: hash -> count
    accepted,       \* the hashes acceptTransaction has taken for broadcast
    send,           \* per caller, its send flow: position, wtxNew, nFeeRet
    last,           \* the last wallet call: operation, arguments, outcome (history)
    crypt           \* the master key records (mapMasterKeys) and the key store's state

walletVars == <<mapWallet, blockChain>>
callVars == <<sel, conf>>
poolVars == <<setKeyPool, poolDb, nKeys, fLocked, args, resv, kpLog, kpThrew>>
bookVars == <<walletDb, vWalletUpdated, vchDefaultKey, mapAddressBook,
              mapRequestCount, accepted, send, last>>
vars == <<mapWallet, blockChain, sel, conf,
          setKeyPool, poolDb, nKeys, fLocked, args, resv, kpLog, kpThrew,
          walletDb, vWalletUpdated, vchDefaultKey, mapAddressBook,
          mapRequestCount, accepted, send, last, crypt>>

\* ------------------------------------------------------------ helpers
Range(s) == {s[i] : i \in DOMAIN s}

RECURSIVE SumSeq(_)
SumSeq(s) == IF s = <<>> THEN 0 ELSE Head(s) + SumSeq(Tail(s))

RECURSIVE SumOver(_, _)
\* Sum of f[x] over the finite set S.
SumOver(S, f) ==
    IF S = {} THEN 0
    ELSE LET x == CHOOSE y \in S : TRUE IN f[x] + SumOver(S \ {x}, f)

\* F at the value of e: e is evaluated once, whatever F does with it.
Then(e, F(_)) == CHOOSE r \in {F(v) : v \in {e}} : TRUE

RECURSIVE Perms(_)
\* All orders (sequences without repetition) of the finite set S.
Perms(S) ==
    IF S = {} THEN {<<>>}
    ELSE UNION {{<<x>> \o p : p \in Perms(S \ {x})} : x \in S}

Max2(a, b) == IF a >= b THEN a ELSE b
Min2(a, b) == IF a <= b THEN a ELSE b

\* ------------------------------------------------ the ledger collaborator
\* _blockChain.isFinal(tx)
isFinal(h) == blockChain.final[h]
\* _blockChain.getDepthInMainChain(hash)
getDepthInMainChain(h) == blockChain.depth[h]
\* _blockChain.getBlocksToMaturity(tx)
getBlocksToMaturity(h) == blockChain.maturity[h]

\* ----------------------------------------------------- wallet records
\* CWalletTx::IsSpent(n): a position beyond the bitmap counts as unspent.
IsSpent(wtx, n) == n <= Len(wtx.vfSpent) /\ wtx.vfSpent[n]

\* Wallet::IsMine(txout): the key store can spend the output's script.
IsMine(txout) == txout.mine

\* Wallet::GetDebit(txin): the value of the wallet's own output the input spends.
GetDebit(txin) ==
    IF txin[1] \in DOMAIN mapWallet
    THEN LET prev == mapWallet[txin[1]] IN
         IF txin[2] <= Len(prev.vout) /\ IsMine(prev.vout[txin[2]])
         THEN prev.vout[txin[2]].nValue
         ELSE 0
    ELSE 0

\* Wallet::IsFromMe(tx): the inputs of tx debit the wallet.
IsFromMe(tx) == SumSeq([i \in DOMAIN tx.vin |-> GetDebit(tx.vin[i])]) > 0

\* ------------------------------------------------- Wallet::IsConfirmed
\* mapPrev as lines 391-393 fill it: every supporting transaction is stored
\* under the key tx.GetHash(), so the map holds at most that one key, bound
\* to the last entry of vtxPrev.
MapPrev(tx) ==
    IF tx.vtxPrev = <<>> THEN << >>
    ELSE [k \in {tx.hash} |-> tx.vtxPrev[Len(tx.vtxPrev)]]

RECURSIVE PushPrevSkipsMissing(_, _, _)
\* PushPrev with an input whose transaction is missing from mapPrev passed over
\* instead of ending the walk.
PushPrevSkipsMissing(vin, mapPrev, acc) ==
    IF vin = <<>> THEN [ok |-> TRUE, q |-> acc]
    ELSE IF Head(vin)[1] \notin DOMAIN mapPrev THEN PushPrevSkipsMissing(Tail(vin), mapPrev, acc)
    ELSE PushPrevSkipsMissing(Tail(vin), mapPrev, Append(acc, mapPrev[Head(vin)[1]]))

\* PushPrev that goes on past an input whose transaction is missing from
\* mapPrev, with an entry made up from the input.
RECURSIVE PushPrevPushesInputs(_, _, _)
PushPrevPushesInputs(vin, mapPrev, acc) ==
    IF vin = <<>> THEN [ok |-> TRUE, q |-> acc]
    ELSE IF Head(vin)[1] \notin DOMAIN mapPrev
         THEN PushPrevPushesInputs(Tail(vin), mapPrev,
                                   Append(acc, [hash |-> Head(vin)[1], vin |-> <<>>]))
    ELSE PushPrevPushesInputs(Tail(vin), mapPrev, Append(acc, mapPrev[Head(vin)[1]]))

\* The inputs of ptx, each looked up in mapPrev: the entries to push on the
\* work queue, or "missing" when an input's transaction is not a key of it.
RECURSIVE PushPrev(_, _, _)
PushPrev(vin, mapPrev, acc) ==
    IF vin = <<>> THEN [ok |-> TRUE, q |-> acc]
    ELSE IF Head(vin)[1] \notin DOMAIN mapPrev THEN [ok |-> FALSE, q |-> acc]
    ELSE PushPrev(Tail(vin), mapPrev, Append(acc, mapPrev[Head(vin)[1]]))

\* The outcome of a walk: the value returned, the work queue as the walk left
\* it and the number of its entries the loop has taken up.
Walked(ret, vWorkQueue, nVisited) ==
    [ret |-> ret, vWorkQueue |-> vWorkQueue, nVisited |-> nVisited]

\* The loop of lines 380-401 over vWorkQueue from position i on.
RECURSIVE WalkQueue(_, _, _)
WalkQueue(tx, vWorkQueue, i) ==
    IF i > Len(vWorkQueue) THEN Walked(TRUE, vWorkQueue, i - 1)
    ELSE LET ptx == vWorkQueue[i] IN
         IF ~isFinal(ptx.hash) THEN Walked(FALSE, vWorkQueue, i)
         ELSE IF getDepthInMainChain(ptx.hash) >= 1 THEN WalkQueue(tx, vWorkQueue, i + 1)
         ELSE IF ~IsFromMe(ptx) THEN Walked(FALSE, vWorkQueue, i)
         ELSE LET r == PushPrev(ptx.vin, MapPrev(tx), <<>>) IN
              IF ~r.ok THEN Walked(FALSE, vWorkQueue \o r.q, i)
              ELSE WalkQueue(tx, vWorkQueue \o r.q, i + 1)

\* A record seen as the CMerkleTx the work queue holds.
AsMerkleTx(tx) == [hash |-> tx.hash, vin |-> tx.vin]

\* Wallet::IsConfirmed(tx) with its walk: the quick answers of lines 367-372
\* leave the work queue empty.
IsConfirmedWalk(tx) ==
    IF ~isFinal(tx.hash) THEN Walked(FALSE, <<>>, 0)
    ELSE IF getDepthInMainChain(tx.hash) >= 1 THEN Walked(TRUE, <<>>, 0)
    ELSE IF ~IsFromMe(tx) THEN Walked(FALSE, <<>>, 0)
    ELSE WalkQueue(tx, <<AsMerkleTx(tx)>>, 1)

IsConfirmed(tx) == IsConfirmedWalk(tx).ret



\* --------------------------------------------- Wallet::SelectCoinsMinConf
\* The initial coinLowestLarger.first (line 614); the checker's largest integer
\* stands for the largest int64.
INT64_MAX == 2147483647
NullCoin == <<NullHash, 0>>

\* ScansRecord without the depth test of lines 635-637.
ScansRecordAnyDepth(pcoin, nConfMine, nConfTheirs) ==
    /\ isFinal(pcoin.hash)
    /\ IsConfirmed(pcoin)
    /\ ~(pcoin.coinbase /\ getBlocksToMaturity(pcoin.hash) > 0)

\* Lines 629-637: whether the outputs of record pcoin are scanned at all.
ScansRecord(pcoin, nConfMine, nConfTheirs) ==
    /\ isFinal(pcoin.hash)
    /\ IsConfirmed(pcoin)
    /\ ~(pcoin.coinbase /\ getBlocksToMaturity(pcoin.hash) > 0)
    /\ getDepthInMainChain(pcoin.hash) >= (IF IsFromMe(pcoin) THEN nConfMine ELSE nConfTheirs)

\* Lines 639-649: the (value, coin) pairs of pcoin's outputs from position i on
\* that pass the per-output tests, in output order.
RECURSIVE CoinsOf(_, _)
CoinsOf(pcoin, i) ==
    IF i > Len(pcoin.vout) THEN <<>>
    ELSE IF IsSpent(pcoin, i) \/ ~IsMine(pcoin.vout[i]) \/ pcoin.vout[i].nValue <= 0
         THEN CoinsOf(pcoin, i + 1)
         ELSE <<[n |-> pcoin.vout[i].nValue, coin |-> <<pcoin.hash, i>>]>> \o CoinsOf(pcoin, i + 1)

\* ScanCoins in which a pair equal to the target does not end the scan: it is
\* kept with the pairs below the target plus CENT.
RECURSIVE ScanCoinsKeepsScanning(_, _, _)
ScanCoinsKeepsScanning(cands, nTargetValue, st) ==
    IF cands = <<>> THEN st
    ELSE LET coin == Head(cands) IN
         IF coin.n < nTargetValue + CENT
              THEN ScanCoinsKeepsScanning(Tail(cands), nTargetValue,
                             [st EXCEPT !.vValue = Append(@, coin), !.nTotalLower = @ + coin.n])
         ELSE IF coin.n < st.coinLowestLarger.n
              THEN ScanCoinsKeepsScanning(Tail(cands), nTargetValue,
                             [st EXCEPT !.coinLowestLarger = coin])
         ELSE ScanCoinsKeepsScanning(Tail(cands), nTargetValue, st)

\* ScanCoins in which coinLowestLarger is the last larger pair met, whatever
\* its value.
RECURSIVE ScanCoinsAnyLarger(_, _, _)
ScanCoinsAnyLarger(cands, nTargetValue, st) ==
    IF cands = <<>> THEN st
    ELSE LET coin == Head(cands) IN
         IF coin.n = nTargetValue THEN [st EXCEPT !.exact = <<coin>>]
         ELSE IF coin.n < nTargetValue + CENT
              THEN ScanCoinsAnyLarger(Tail(cands), nTargetValue,
                             [st EXCEPT !.vValue = Append(@, coin), !.nTotalLower = @ + coin.n])
         ELSE ScanCoinsAnyLarger(Tail(cands), nTargetValue,
                             [st EXCEPT !.coinLowestLarger = coin])

\* Lines 627-649: the pairs met by the scan, in the order vCoins has after the
\* shuffle (a sequence of the hashes of mapWallet).
RECURSIVE Candidates(_, _, _)
Candidates(vCoins, nConfMine, nConfTheirs) ==
    IF vCoins = <<>> THEN <<>>
    ELSE LET pcoin == mapWallet[Head(vCoins)] IN
         (IF ScansRecord(pcoin, nConfMine, nConfTheirs) THEN CoinsOf(pcoin, 1) ELSE <<>>)
         \o Candidates(Tail(vCoins), nConfMine, nConfTheirs)

\* Lines 651-665 applied to each pair in turn.  exact holds the pair that equals
\* the target, on which the scan returns at once.
RECURSIVE ScanCoins(_, _, _)
ScanCoins(cands, nTargetValue, st) ==
    IF cands = <<>> THEN st
    ELSE LET coin == Head(cands) IN
         IF coin.n = nTargetValue THEN [st EXCEPT !.exact = <<coin>>]
         ELSE IF coin.n < nTargetValue + CENT
              THEN ScanCoins(Tail(cands), nTargetValue,
                             [st EXCEPT !.vValue = Append(@, coin), !.nTotalLower = @ + coin.n])
         ELSE IF coin.n < st.coinLowestLarger.n
              THEN ScanCoins(Tail(cands), nTargetValue, [st EXCEPT !.coinLowestLarger = coin])
         ELSE ScanCoins(Tail(cands), nTargetValue, st)

ScanInit ==
    [exact |-> <<>>, vValue |-> <<>>, nTotalLower |-> 0,
     coinLowestLarger |-> [n |-> INT64_MAX, coin |-> NullCoin]]

\* The order of sort(vValue.rbegin(), vValue.rend()): descending by value, then
\* by the record (its address in the code, its hash here), then by position.
PairLess(a, b) ==
    \/ a.n < b.n
    \/ a.n = b.n /\ a.coin[1] < b.coin[1]
    \/ a.n = b.n /\ a.coin[1] = b.coin[1] /\ a.coin[2] < b.coin[2]

RECURSIVE InsertDesc(_, _)
InsertDesc(x, s) ==
    IF s = <<>> THEN <<x>>
    ELSE IF PairLess(Head(s), x) THEN <<x>> \o s
    ELSE <<Head(s)>> \o InsertDesc(x, Tail(s))

RECURSIVE SortDesc(_)
SortDesc(s) == IF s = <<>> THEN <<>> ELSE InsertDesc(Head(s), SortDesc(Tail(s)))

RECURSIVE TrialPassKeepsAnyLower(_, _, _, _, _, _)
\* TrialPass with the best subset replaced by any running total below nBest,
\* whether or not it has reached the target.
TrialPassKeepsAnyLower(vValue, nTargetValue, flips, nPass, i, st) ==
    IF i > Len(vValue) THEN st
    ELSE IF (IF nPass = 0 THEN flips[i] ELSE ~st.vfIncluded[i])
         THEN LET nTotal == st.nTotal + vValue[i].n
                  inc    == [st.vfIncluded EXCEPT ![i] = TRUE]
                  kept   == [st EXCEPT !.nBest  = IF nTotal < st.nBest THEN nTotal ELSE @,
                                       !.vfBest = IF nTotal < st.nBest THEN inc ELSE @]
              IN  IF nTotal >= nTargetValue
                  THEN TrialPassKeepsAnyLower(vValue, nTargetValue, flips, nPass, i + 1,
                           [kept EXCEPT !.fReachedTarget = TRUE])
                  ELSE TrialPassKeepsAnyLower(vValue, nTargetValue, flips, nPass, i + 1,
                           [kept EXCEPT !.nTotal = nTotal, !.vfIncluded = inc])
         ELSE TrialPassKeepsAnyLower(vValue, nTargetValue, flips, nPass, i + 1, st)

\* Lines 705-723: one pass of a trial over positions i.. of vValue.  flips[i] is
\* the outcome of rand() % 2 for position i.
RECURSIVE TrialPass(_, _, _, _, _, _)
TrialPass(vValue, nTargetValue, flips, nPass, i, st) ==
    IF i > Len(vValue) THEN st
    ELSE IF (IF nPass = 0 THEN flips[i] ELSE ~st.vfIncluded[i])
         THEN LET nTotal == st.nTotal + vValue[i].n
                  inc    == [st.vfIncluded EXCEPT ![i] = TRUE]
              IN  IF nTotal >= nTargetValue
                  THEN TrialPass(vValue, nTargetValue, flips, nPass, i + 1,
                           [st EXCEPT !.fReachedTarget = TRUE,
                                      !.nBest  = IF nTotal < st.nBest THEN nTotal ELSE @,
                                      !.vfBest = IF nTotal < st.nBest THEN inc ELSE @])
                  ELSE TrialPass(vValue, nTargetValue, flips, nPass, i + 1,
                           [st EXCEPT !.nTotal = nTotal, !.vfIncluded = inc])
         ELSE TrialPass(vValue, nTargetValue, flips, nPass, i + 1, st)

\* Lines 700-724: one trial; the second pass runs only when the first did not
\* reach the target.
Trial(vValue, nTargetValue, flips, best) ==
    LET st0 == [nTotal |-> 0, vfIncluded |-> [i \in DOMAIN vValue |-> FALSE],
                fReachedTarget |-> FALSE, nBest |-> best.nBest, vfBest |-> best.vfBest]
        st1 == TrialPass(vValue, nTargetValue, flips, 0, 1, st0)
        st2 == IF st1.fReachedTarget THEN st1
               ELSE TrialPass(vValue, nTargetValue, flips, 1, 1, st1)
    IN  [nBest |-> st2.nBest, vfBest |-> st2.vfBest]

\* Lines 698-725: the (nBest, vfBest) pairs the loop can end with after nRep
\* more trials, from those of the set bests; a pair that has reached the
\* target ends the loop.
RECURSIVE Trials(_, _, _, _)
Trials(vValue, nTargetValue, nRep, bests) ==
    IF nRep = 0 THEN bests
    ELSE Trials(vValue, nTargetValue, nRep - 1,
                {b \in bests : b.nBest = nTargetValue}
                \cup {Trial(vValue, nTargetValue, f, b) :
                        f \in [DOMAIN vValue -> BOOLEAN],
                        b \in {x \in bests : x.nBest # nTargetValue}})

\* The coins of the positions of vValue that vf marks, and their total, added
\* up as lines 734-739 do.
Included(vValue, vf) ==
    LET idx == {i \in DOMAIN vValue : vf[i]} IN
    [fOk |-> TRUE,
     setCoinsRet |-> {vValue[i].coin : i \in idx},
     nValueRet |-> SumSeq([i \in DOMAIN vValue |-> IF vf[i] THEN vValue[i].n ELSE 0])]

OneCoin(pair) == [fOk |-> TRUE, setCoinsRet |-> {pair.coin}, nValueRet |-> pair.n]
Failure == [fOk |-> FALSE, setCoinsRet |-> {}, nValueRet |-> 0]

\* AfterScan with the CENT margin of line 680 applied whether or not a larger
\* coin exists.
AfterScanMarginAlways(st, nTargetValue0) ==
    IF st.nTotalLower = nTargetValue0 \/ st.nTotalLower = nTargetValue0 + CENT
    THEN {Included(st.vValue, [i \in DOMAIN st.vValue |-> TRUE])}
    ELSE IF st.nTotalLower < nTargetValue0 + CENT
    THEN IF st.coinLowestLarger.coin = NullCoin THEN {Failure}
         ELSE {OneCoin(st.coinLowestLarger)}
    ELSE LET nTargetValue == nTargetValue0 + CENT
             vValue == st.vValue
             best0  == [nBest |-> st.nTotalLower, vfBest |-> [i \in DOMAIN vValue |-> TRUE]]
         IN  {IF /\ st.coinLowestLarger.coin # NullCoin
                 /\ st.coinLowestLarger.n - nTargetValue <= b.nBest - nTargetValue
              THEN OneCoin(st.coinLowestLarger)
              ELSE Included(vValue, b.vfBest) :
                 b \in Trials(vValue, nTargetValue, MaxRep, {best0})}

\* AfterScan in which all the lower coins are returned only when they sum to
\* the target itself.
AfterScanSumExactOnly(st, nTargetValue0) ==
    IF st.nTotalLower = nTargetValue0
    THEN {Included(st.vValue, [i \in DOMAIN st.vValue |-> TRUE])}
    ELSE IF st.nTotalLower <
                nTargetValue0 + (IF st.coinLowestLarger.coin # NullCoin THEN CENT ELSE 0)
    THEN IF st.coinLowestLarger.coin = NullCoin THEN {Failure}
         ELSE {OneCoin(st.coinLowestLarger)}
    ELSE LET nTargetValue == IF st.nTotalLower >= nTargetValue0 + CENT
                             THEN nTargetValue0 + CENT ELSE nTargetValue0
             vValue == st.vValue
             best0  == [nBest |-> st.nTotalLower, vfBest |-> [i \in DOMAIN vValue |-> TRUE]]
         IN  {IF /\ st.coinLowestLarger.coin # NullCoin
                 /\ st.coinLowestLarger.n - nTargetValue <= b.nBest - nTargetValue
              THEN OneCoin(st.coinLowestLarger)
              ELSE Included(vValue, b.vfBest) :
                 b \in Trials(vValue, nTargetValue, MaxRep, {best0})}

\* Lines 670-749, after the scan st (whose vValue line 693 has sorted): the
\* results the call can return.
AfterScan(st, nTargetValue0) ==
    IF st.nTotalLower = nTargetValue0 \/ st.nTotalLower = nTargetValue0 + CENT
    THEN {Included(st.vValue, [i \in DOMAIN st.vValue |-> TRUE])}
    ELSE IF st.nTotalLower <
                nTargetValue0 + (IF st.coinLowestLarger.coin # NullCoin THEN CENT ELSE 0)
    THEN IF st.coinLowestLarger.coin = NullCoin THEN {Failure}
         ELSE {OneCoin(st.coinLowestLarger)}
    ELSE LET nTargetValue == IF st.nTotalLower >= nTargetValue0 + CENT
                             THEN nTargetValue0 + CENT ELSE nTargetValue0
             vValue == st.vValue
             best0  == [nBest |-> st.nTotalLower, vfBest |-> [i \in DOMAIN vValue |-> TRUE]]
         IN  {IF /\ st.coinLowestLarger.coin # NullCoin
                 /\ st.coinLowestLarger.n - nTargetValue <= b.nBest - nTargetValue
              THEN OneCoin(st.coinLowestLarger)
              ELSE Included(vValue, b.vfBest) :
                 b \in Trials(vValue, nTargetValue, MaxRep, {best0})}

\* The scan for one outcome vCoins of the shuffle, with vValue in the order
\* line 693 gives it.  Sorting here rather than at line 693 changes no result:
\* lines 670-678 read vValue as a set and a sum only.
ScanWithOrder(nTargetValue, nConfMine, nConfTheirs, vCoins) ==
    LET st == ScanCoins(Candidates(vCoins, nConfMine, nConfTheirs), nTargetValue, ScanInit)
    IN  [st EXCEPT !.vValue = SortDesc(@)]

\* Lines 651-656 and 670-749 on a finished scan.
ResultsOf(st, nTargetValue) ==
    IF st.exact # <<>> THEN {OneCoin(st.exact[1])}
    ELSE AfterScan(st, nTargetValue)

\* Wallet::SelectCoinsMinConf: every result the call can return, over the
\* outcomes of random_shuffle and of rand().  The records that give the scan no
\* candidate are left out of the orders: where they stand changes nothing.
SelectCoinsMinConf(nTargetValue, nConfMine, nConfTheirs) ==
    UNION {ResultsOf(st, nTargetValue) :
             st \in {ScanWithOrder(nTargetValue, nConfMine, nConfTheirs, vCoins) :
                       vCoins \in Perms({h \in DOMAIN mapWallet :
                           /\ ScansRecord(mapWallet[h], nConfMine, nConfTheirs)
                           /\ CoinsOf(mapWallet[h], 1) # <<>>})}}

\* SelectCoins with the loosest thresholds only.
SelectCoinsLoosestOnly(nTargetValue) ==
    SelectCoinsMinConf(nTargetValue, 0, 1)

\* Wallet::SelectCoins: the first of the three calls that succeeds.
SelectCoins(nTargetValue) ==
    LET r1 == SelectCoinsMinConf(nTargetValue, 1, 6)
        r2 == SelectCoinsMinConf(nTargetValue, 1, 1)
        r3 == SelectCoinsMinConf(nTargetValue, 0, 1)
    IN  {r \in r1 : r.fOk}
        \cup (IF \E r \in r1 : ~r.fOk
              THEN {r \in r2 : r.fOk} \cup (IF \E r \in r2 : ~r.fOk THEN r3 ELSE {})
              ELSE {})


\* ------------------------------------------------------------ the key pool
Callers == 1..NumCallers
\* CReserveKey's nIndex when it holds no reservation; the empty vchPubKey.
NoIndex == -1
NoKey == 0
NoReservation == [nIndex |-> NoIndex, vchPubKey |-> NoKey]

\* The passphrases a caller may give.
Passphrases == {"first", "second", "third"}
\* A master key record: the wallet key encrypted under a passphrase.  The
\* record's salt, iteration count and encrypted key are represented by the
\* passphrase they were made with.
MasterKey(under) == [under |-> under]
\* The key store of a wallet that has never been encrypted (no master key
\* record), and of an encrypted wallet with one record.  The records are
\* listed in the order of their ids, the order mapMasterKeys is walked in.
\* With the records in memory: whether the keys are encrypted (IsCrypted()),
\* the records the wallet file holds, the master key record each caller of
\* EncryptWallet has prepared and not yet stored (NoMasterKey if none), and
\* whether the process has exited.
NoMasterKey == [under |-> "none"]
KeyStore(keys, fUseCrypto) ==
    [mapMasterKeys |-> keys, nMasterKeyMaxID |-> Len(keys),
     fUseCrypto |-> fUseCrypto, dbMasterKeys |-> keys,
     kMasterKey |-> [c \in Callers |-> NoMasterKey], fExited |-> FALSE]
NoCrypt == KeyStore(<<>>, FALSE)
OneKeyCrypt == KeyStore(<<MasterKey("first")>>, TRUE)

\* The key pool as the snapshot specifications leave it: empty and unused.
PoolUnused ==
    /\ setKeyPool = {} /\ poolDb = << >> /\ nKeys = 0 /\ fLocked = FALSE
    /\ crypt = NoCrypt
    /\ args = [fFileBacked |-> TRUE, keypool |-> 0]
    /\ resv = [c \in Callers |-> NoReservation]
    /\ kpLog = <<>> /\ kpThrew = FALSE

SetMax(S) == CHOOSE x \in S : \A y \in S : y <= x
SetMin(S) == CHOOSE x \in S : \A y \in S : x <= y

\* CWalletDB::WritePool(nEnd, key): the record of index nEnd is written, over
\* any record already there.
WritePool(db, nEnd, key) ==
    [i \in DOMAIN db \cup {nEnd} |-> IF i = nEnd THEN key ELSE db[i]]

\* CWalletDB::ErasePool(nIndex)
ErasePool(db, nIndex) == [i \in DOMAIN db \ {nIndex} |-> db[i]]

\* The pool part of the state, as the operators below pass it along.
PoolNow == [setKeyPool |-> setKeyPool, poolDb |-> poolDb, nKeys |-> nKeys,
            kpLog |-> kpLog, threw |-> FALSE]

\* Lines 1098-1107: the top-up loop, in which the first nWrites durable writes
\* succeed and the next one fails (the key was generated all the same).
RECURSIVE TopUpLoop(_, _, _)
TopUpLoop(p, nTargetSize, nWrites) ==
    IF Cardinality(p.setKeyPool) < nTargetSize + 1
    THEN LET nEnd == IF p.setKeyPool # {} THEN SetMax(p.setKeyPool) + 1 ELSE 1
             key  == p.nKeys + 1
         IN  IF nWrites = 0
             THEN [p EXCEPT !.nKeys = key, !.threw = TRUE]
             ELSE TopUpLoop([p EXCEPT !.setKeyPool = @ \cup {nEnd},
                                      !.poolDb = WritePool(@, nEnd, key),
                                      !.nKeys = key,
                                      !.kpLog = Append(@, nEnd)],
                            nTargetSize, nWrites - 1)
    ELSE p

\* Wallet::TopUpKeyPool on pool state p: nothing when the wallet is locked.
TopUpKeyPool(p, nWrites) ==
    IF fLocked THEN p
    ELSE TopUpLoop(p, Max2(args.keypool, 0), nWrites)

\* Wallet::ReserveKeyFromKeyPool on pool state p: the pool state after the call
\* and the nIndex and key handed to the caller.
ReserveKeyFromKeyPool(p0, nWrites) ==
    Then(IF ~fLocked THEN TopUpKeyPool(p0, nWrites) ELSE p0, LAMBDA p :
    IF p.threw THEN [pool |-> p, nIndex |-> NoIndex, vchPubKey |-> NoKey]
    ELSE IF p.setKeyPool = {} THEN [pool |-> p, nIndex |-> NoIndex, vchPubKey |-> NoKey]
    ELSE LET nIndex == SetMin(p.setKeyPool)
             q == [p EXCEPT !.setKeyPool = @ \ {nIndex}]
         IN  IF nIndex \notin DOMAIN p.poolDb
             THEN [pool |-> [q EXCEPT !.threw = TRUE], nIndex |-> nIndex, vchPubKey |-> NoKey]
             ELSE [pool |-> q, nIndex |-> nIndex, vchPubKey |-> p.poolDb[nIndex]])

\* The pool variables set from a pool state.
SetPool(p) ==
    /\ setKeyPool' = p.setKeyPool
    /\ poolDb' = p.poolDb
    /\ nKeys' = p.nKeys
    /\ kpLog' = p.kpLog
    /\ kpThrew' = (kpThrew \/ p.threw)

\* The numbers of durable writes a call may see succeed before one fails.
WriteBudgets == 0..(MaxPoolTarget + 2)

\* A caller tops the pool up.
CallTopUpKeyPool ==
    \E nWrites \in WriteBudgets :
        LET p == TopUpKeyPool(PoolNow, nWrites) IN
        /\ p.nKeys <= MaxKeys
        /\ SetPool(p)
        /\ UNCHANGED <<fLocked, args, resv>>
        /\ UNCHANGED <<walletVars, callVars, bookVars, crypt>>

\* Caller c, holding no reservation, reserves a key.
CallReserveKeyFromKeyPool(c) ==
    /\ resv[c].nIndex = NoIndex
    /\ \E nWrites \in WriteBudgets :
        LET r == ReserveKeyFromKeyPool(PoolNow, nWrites) IN
        /\ r.pool.nKeys <= MaxKeys
        /\ SetPool(r.pool)
        /\ resv' = [resv EXCEPT ![c] = [nIndex |-> r.nIndex, vchPubKey |-> r.vchPubKey]]
        /\ UNCHANGED <<fLocked, args>>
        /\ UNCHANGED <<walletVars, callVars, bookVars, crypt>>

\* Wallet::KeepKey(nIndex) by the caller that holds nIndex.
CallKeepKey(c) ==
    /\ resv[c].nIndex # NoIndex
    /\ poolDb' = IF args.fFileBacked THEN ErasePool(poolDb, resv[c].nIndex) ELSE poolDb
    /\ resv' = [resv EXCEPT ![c] = NoReservation]
    /\ UNCHANGED <<setKeyPool, nKeys, fLocked, args, kpLog, kpThrew>>
    /\ UNCHANGED <<walletVars, callVars, bookVars, crypt>>

\* Wallet::ReturnKey(nIndex) by the caller that holds nIndex.
CallReturnKey(c) ==
    /\ resv[c].nIndex # NoIndex
    /\ setKeyPool' = setKeyPool \cup {resv[c].nIndex}
    /\ resv' = [resv EXCEPT ![c] = NoReservation]
    /\ UNCHANGED <<poolDb, nKeys, fLocked, args, kpLog, kpThrew>>
    /\ UNCHANGED <<walletVars, callVars, bookVars, crypt>>

\* The wallet is locked, or unlocked with its passphrase.
LockWallet ==
    /\ ~fLocked /\ fLocked' = TRUE
    /\ UNCHANGED <<setKeyPool, poolDb, nKeys, args, resv, kpLog, kpThrew>>
    /\ UNCHANGED <<walletVars, callVars, bookVars, crypt>>

UnlockWallet ==
    /\ fLocked /\ fLocked' = FALSE
    /\ UNCHANGED <<setKeyPool, poolDb, nKeys, args, resv, kpLog, kpThrew>>
    /\ UNCHANGED <<walletVars, callVars, bookVars, crypt>>

\* ------------------------------------------- the wallet state and its writes
\* A send flow that has not started: no transaction, no fee.
NoTx == [hash |-> NullHash]
NoSend == [pc |-> "idle", wtxNew |-> NoTx, nFeeRet |-> 0, ret |-> FALSE]
NoCall == [op |-> "none"]

\* The bookkeeping of a wallet on which no transaction call has been made.
BookUnused ==
    /\ walletDb = << >> /\ vWalletUpdated = <<>> /\ vchDefaultKey = NoKey
    /\ mapAddressBook = << >> /\ mapRequestCount = << >> /\ accepted = {}
    /\ send = [c \in Callers |-> NoSend]
    /\ last = NoCall

\* The state a handler runs on, passed from step to step: nWrites is the number
\* of durable writes that still succeed before the wallet file fails, threw
\* whether runtime_error has been thrown.
WalletNow(nWrites) ==
    [mapWallet |-> mapWallet, walletDb |-> walletDb,
     vWalletUpdated |-> vWalletUpdated, vchDefaultKey |-> vchDefaultKey,
     mapAddressBook |-> mapAddressBook, mapRequestCount |-> mapRequestCount,
     accepted |-> accepted,
     setKeyPool |-> setKeyPool, poolDb |-> poolDb, nKeys |-> nKeys,
     kpLog |-> kpLog, threw |-> FALSE, nWrites |-> nWrites,
     feeLog |-> <<>>]

\* The variables set from the state a handler ends in.
SetWallet(W) ==
    /\ mapWallet' = W.mapWallet
    /\ walletDb' = W.walletDb
    /\ vWalletUpdated' = W.vWalletUpdated
    /\ vchDefaultKey' = W.vchDefaultKey
    /\ mapAddressBook' = W.mapAddressBook
    /\ mapRequestCount' = W.mapRequestCount
    /\ accepted' = W.accepted
    /\ SetPool(W)

\* f with x mapped to v.
Put(f, x, v) == [y \in DOMAIN f \cup {x} |-> IF y = x THEN v ELSE f[y]]

\* CWalletTx::MarkSpent(n) and CWalletTx::UpdateSpent(vfNewSpent): bits are
\* set, never cleared.
MarkSpent(wtx, n) == [wtx EXCEPT !.vfSpent[n] = TRUE]

UpdateSpent(wtx, vfNewSpent) ==
    [wtx EXCEPT !.vfSpent =
        [i \in DOMAIN @ |-> @[i] \/ (i \in DOMAIN vfNewSpent /\ vfNewSpent[i])]]

\* Whether the next durable write succeeds.
CanWrite(W) == W.nWrites > 0

\* Wallet::WriteToDisk of the record of hash (CWalletDB::WriteTx): the durable
\* record becomes the in-memory one, if the write succeeds.
WriteToDisk(W, hash) ==
    IF CanWrite(W)
    THEN [W EXCEPT !.walletDb = Put(@, hash, W.mapWallet[hash]), !.nWrites = @ - 1]
    ELSE W

\* A walk over the inputs that marks, writes and notifies without looking at
\* the spent bit.
RECURSIVE WalletUpdateSpentAlways(_, _, _)
WalletUpdateSpentAlways(W, vin, i) ==
    IF i > Len(vin) THEN W
    ELSE LET h == vin[i][1]
             n == vin[i][2]
         IN  IF /\ h \in DOMAIN W.mapWallet
                /\ n \in DOMAIN W.mapWallet[h].vout
                /\ IsMine(W.mapWallet[h].vout[n])
             THEN Then(WriteToDisk([W EXCEPT !.mapWallet[h] = MarkSpent(@, n)], h),
                       LAMBDA W1 : WalletUpdateSpentAlways(
                          [W1 EXCEPT !.vWalletUpdated = Append(@, h)], vin, i + 1))
             ELSE WalletUpdateSpentAlways(W, vin, i + 1)

\* Wallet::WalletUpdateSpent over the inputs vin from position i on.
RECURSIVE WalletUpdateSpentFrom(_, _, _)
WalletUpdateSpentFrom(W, vin, i) ==
    IF i > Len(vin) THEN W
    ELSE LET h == vin[i][1]
             n == vin[i][2]
         IN  IF /\ h \in DOMAIN W.mapWallet
                /\ n \in DOMAIN W.mapWallet[h].vout
                /\ ~IsSpent(W.mapWallet[h], n)
                /\ IsMine(W.mapWallet[h].vout[n])
             THEN Then(WriteToDisk([W EXCEPT !.mapWallet[h] = MarkSpent(@, n)], h),
                       LAMBDA W1 : WalletUpdateSpentFrom(
                          [W1 EXCEPT !.vWalletUpdated = Append(@, h)], vin, i + 1))
             ELSE WalletUpdateSpentFrom(W, vin, i + 1)

\* Wallet::WalletUpdateSpent(tx)
WalletUpdateSpent(W, tx) == WalletUpdateSpentFrom(W, tx.vin, 1)

\* Wallet::KeepKey(nIndex) on wallet state W.
KeepKey(W, nIndex) ==
    IF args.fFileBacked THEN [W EXCEPT !.poolDb = ErasePool(@, nIndex)] ELSE W

\* A return that leaves the index out of the set.
ReturnKeyDrops(W, nIndex) == W

\* Wallet::ReturnKey(nIndex) on wallet state W.
ReturnKey(W, nIndex) == [W EXCEPT !.setKeyPool = @ \cup {nIndex}]

\* Wallet::ReserveKeyFromKeyPool on wallet state W, the writes of its top-up
\* taken from W's budget.
ReserveKey(W) ==
    Then(ReserveKeyFromKeyPool(W, W.nWrites), LAMBDA r :
        [W |-> [r.pool EXCEPT !.nWrites = W.nWrites - (Len(r.pool.kpLog) - Len(W.kpLog))],
         nIndex |-> r.nIndex, vchPubKey |-> r.vchPubKey])

\* Wallet::GetKeyFromPool(result, false): a key of the pool, kept at once, or a
\* fresh key when the pool has none and the wallet is unlocked.
GetKeyFromPool(W) ==
    Then(ReserveKey(W), LAMBDA r :
        IF r.W.threw THEN [W |-> r.W, ret |-> FALSE, result |-> NoKey]
        ELSE IF r.nIndex = NoIndex
             THEN IF fLocked THEN [W |-> r.W, ret |-> FALSE, result |-> NoKey]
                  ELSE [W |-> [r.W EXCEPT !.nKeys = @ + 1], ret |-> TRUE,
                        result |-> r.W.nKeys + 1]
             ELSE [W |-> KeepKey(r.W, r.nIndex), ret |-> TRUE, result |-> r.vchPubKey])

\* Wallet::SetDefaultKey
SetDefaultKey(W, vchPubKey) ==
    IF args.fFileBacked /\ ~CanWrite(W) THEN W
    ELSE [W EXCEPT !.vchDefaultKey = vchPubKey,
                   !.nWrites = IF args.fFileBacked THEN @ - 1 ELSE @]

\* Wallet::SetAddressBookName(address of key, strName): the result of the
\* durable write is not looked at.
SetAddressBookName(W, key, strName) ==
    [W EXCEPT !.mapAddressBook = Put(@, key, strName),
              !.nWrites = IF args.fFileBacked /\ @ > 0 THEN @ - 1 ELSE @]

\* Lines 270-283: one replacement of the default key for each of the nHits
\* outputs that pay to the default key the call started with.
RECURSIVE ReplaceDefaultKey(_, _)
ReplaceDefaultKey(W, nHits) ==
    IF nHits = 0 \/ W.threw THEN W
    ELSE Then(GetKeyFromPool(W), LAMBDA g :
            IF g.ret
            THEN Then(SetDefaultKey(g.W, g.result), LAMBDA W1 :
                    ReplaceDefaultKey(SetAddressBookName(W1, W1.vchDefaultKey, ""),
                                      nHits - 1))
            ELSE ReplaceDefaultKey(g.W, nHits - 1))

\* GetAdjustedTime() at a call of the run; the records of a snapshot were
\* received before.
AdjustedTime == 1

\* Lines 243-259: the record found, with wtxIn merged into it.
Merge(wtx, wtxIn) ==
    LET m1 == IF wtxIn.hashBlock # 0 /\ wtxIn.hashBlock # wtx.hashBlock
              THEN [wtx EXCEPT !.hashBlock = wtxIn.hashBlock] ELSE wtx
        m2 == IF /\ wtxIn.nIndex # -1
                 /\ (wtxIn.vMerkleBranch # m1.vMerkleBranch \/ wtxIn.nIndex # m1.nIndex)
              THEN [m1 EXCEPT !.vMerkleBranch = wtxIn.vMerkleBranch,
                              !.nIndex = wtxIn.nIndex]
              ELSE m1
        m3 == IF wtxIn.fFromMe /\ wtxIn.fFromMe # m2.fFromMe
              THEN [m2 EXCEPT !.fFromMe = wtxIn.fFromMe] ELSE m2
    IN  UpdateSpent(m3, wtxIn.vfSpent)

\* Wallet::AddToWallet(wtxIn) on wallet state W: the state after the call and
\* the value returned (none, shown as FALSE, when the call threw), whether the
\* write of the record failed and whether the record was written.
AddToWallet(W, wtxIn) ==
    LET hash == wtxIn.hash
        fInsertedNew == hash \notin DOMAIN W.mapWallet
    IN  Then(IF fInsertedNew THEN [wtxIn EXCEPT !.nTimeReceived = AdjustedTime]
             ELSE Merge(W.mapWallet[hash], wtxIn), LAMBDA wtx :
        LET fUpdated == ~fInsertedNew /\ wtx # W.mapWallet[hash]
            nHits == Cardinality({i \in DOMAIN wtx.vout :
                                     /\ W.vchDefaultKey # NoKey
                                     /\ wtx.vout[i].key = W.vchDefaultKey})
        IN  Then([W EXCEPT !.mapWallet = Put(@, hash, wtx)], LAMBDA W1 :
            IF (fInsertedNew \/ fUpdated) /\ ~CanWrite(W1)
            THEN [W |-> W1, ret |-> FALSE, fWriteFailed |-> TRUE, fWrote |-> FALSE]
            ELSE Then(ReplaceDefaultKey(
                          IF fInsertedNew \/ fUpdated THEN WriteToDisk(W1, hash) ELSE W1,
                          nHits), LAMBDA W3 :
                 IF W3.threw THEN [W |-> W3, ret |-> FALSE, fWriteFailed |-> FALSE,
                                   fWrote |-> fInsertedNew \/ fUpdated]
                 ELSE [W |-> WalletUpdateSpent(
                                 [W3 EXCEPT !.vWalletUpdated = Append(@, hash)], wtx),
                       ret |-> TRUE, fWriteFailed |-> FALSE,
                       fWrote |-> fInsertedNew \/ fUpdated])))

\* Wallet::IsFromMe(tx) against the records mw.
IsFromMeIn(mw, tx) ==
    \E i \in DOMAIN tx.vin :
        /\ tx.vin[i][1] \in DOMAIN mw
        /\ tx.vin[i][2] \in DOMAIN mw[tx.vin[i][1]].vout
        /\ IsMine(mw[tx.vin[i][1]].vout[tx.vin[i][2]])
        /\ mw[tx.vin[i][1]].vout[tx.vin[i][2]].nValue > 0

\* Wallet::IsMine(tx): some output of tx is the wallet's.
IsMineTx(tx) == \E i \in DOMAIN tx.vout : IsMine(tx.vout[i])

\* No block: the pblock argument when the transaction comes unconfirmed.
NoBlock == 0

\* CWalletTx(this, tx), with its merkle branch set when a block is given
\* (lines 308-311): a record not from this wallet, nothing spent.
WalletTxOf(tx, pblock) ==
    [hash |-> tx.hash, vin |-> tx.vin, vout |-> tx.vout, fFromMe |-> FALSE,
     vfSpent |-> [i \in DOMAIN tx.vout |-> FALSE],
     hashBlock |-> pblock, nIndex |-> IF pblock # NoBlock THEN 0 ELSE -1,
     vMerkleBranch |-> pblock, coinbase |-> tx.coinbase, vtxPrev |-> <<>>,
     nTimeReceived |-> 0]

\* Wallet::AddToWalletIfInvolvingMe(tx, pblock, fUpdate) on wallet state W.
AddToWalletIfInvolvingMe(W, tx, pblock, fUpdate) ==
    LET fExisted == tx.hash \in DOMAIN W.mapWallet IN
    IF fExisted /\ ~fUpdate THEN [W |-> W, ret |-> FALSE, fWriteFailed |-> FALSE]
    ELSE IF fExisted \/ IsMineTx(tx) \/ IsFromMeIn(W.mapWallet, tx)
         THEN AddToWallet(W, WalletTxOf(tx, pblock))
         ELSE [W |-> WalletUpdateSpent(W, tx), ret |-> FALSE, fWriteFailed |-> FALSE]

\* ------------------------------------------------------- wallet snapshots
\* A record received from outside the wallet with one owned, unspent output of
\* value v: its input spends a transaction the wallet does not hold.
TheirTx(h, v) ==
    [hash |-> h, vin |-> <<<<NullHash, 1>>>>, vout |-> <<[nValue |-> v, mine |-> TRUE, key |-> NoKey]>>,
     fFromMe |-> FALSE, vfSpent |-> <<FALSE>>, hashBlock |-> 0, nIndex |-> -1,
     vMerkleBranch |-> 0, coinbase |-> FALSE, vtxPrev |-> <<>>, nTimeReceived |-> 0]

\* A record of this wallet's own making: it spends output 1 of record g, which
\* it carries as its supporting transaction.
OwnTx(h, v, g) ==
    [TheirTx(h, v) EXCEPT !.vin = <<<<g, 1>>>>, !.fFromMe = TRUE,
                          !.vtxPrev = <<[hash |-> g, vin |-> <<<<NullHash, 1>>>>]>>]

\* The ways in which record 1 of a snapshot departs from a final record of
\* depth 6 received from outside; the other records do not depart.
Departures ==
    {"none", "depth1", "depth0", "nonfinal", "immature", "spent", "notmine", "zero",
     "own1", "own0"}

\* Under the departures "own1" and "own0" record 1 spends the output of record 2.
SnapshotWallet(val, dep) ==
    [h \in TxIds |->
        IF h = 1 /\ dep \in {"own1", "own0"} THEN OwnTx(h, val[h], h + 1)
        ELSE IF h = 1 /\ dep = "spent"    THEN [TheirTx(h, val[h]) EXCEPT !.vfSpent = <<TRUE>>]
        ELSE IF h = 1 /\ dep = "notmine"  THEN [TheirTx(h, val[h]) EXCEPT !.vout[1].mine = FALSE]
        ELSE IF h = 1 /\ dep = "zero"     THEN [TheirTx(h, val[h]) EXCEPT !.vout[1].nValue = 0]
        ELSE IF h = 1 /\ dep = "immature" THEN [TheirTx(h, val[h]) EXCEPT !.coinbase = TRUE]
        ELSE TheirTx(h, val[h])]

SnapshotChain(dep) ==
    [final    |-> [h \in TxIds |-> ~(h = 1 /\ dep = "nonfinal")],
     depth    |-> [h \in TxIds |->
                     IF h = 1 /\ dep \in {"depth1", "own1", "immature"} THEN 1
                     ELSE IF h = 1 /\ dep \in {"depth0", "own0"} THEN 0
                     ELSE 6],
     maturity |-> [h \in TxIds |-> IF h = 1 /\ dep = "immature" THEN 1 ELSE 0]]

NoConf == [hash |-> NullHash, ret |-> FALSE]

NoSel == [op |-> "none", nTargetValue |-> 0, nConfMine |-> 0, nConfTheirs |-> 0,
          ret |-> Failure]

\* ---------------------------------------------- coin selection as a function
InitSelect ==
    \E val \in [TxIds -> 1..MaxValue], dep \in Departures :
        /\ mapWallet = SnapshotWallet(val, dep)
        /\ blockChain = SnapshotChain(dep)
        /\ sel = NoSel
        /\ conf = NoConf
        /\ PoolUnused /\ BookUnused

\* The confirmation thresholds Wallet::SelectCoins hands to SelectCoinsMinConf.
Thresholds == {<<1, 6>>, <<1, 1>>, <<0, 1>>}

CallSelectCoinsMinConf ==
    /\ sel.op = "none"
    /\ \E nTargetValue \in 0..MaxTarget, thr \in Thresholds :
         \E r \in SelectCoinsMinConf(nTargetValue, thr[1], thr[2]) :
            sel' = [op |-> "SelectCoinsMinConf", nTargetValue |-> nTargetValue,
                    nConfMine |-> thr[1], nConfTheirs |-> thr[2], ret |-> r]
    /\ UNCHANGED <<mapWallet, blockChain, crypt, conf>>
    /\ UNCHANGED <<poolVars, bookVars>>

CallSelectCoins ==
    /\ sel.op = "none"
    /\ \E nTargetValue \in 0..MaxTarget :
         \E r \in SelectCoins(nTargetValue) :
            sel' = [op |-> "SelectCoins", nTargetValue |-> nTargetValue,
                    nConfMine |-> 0, nConfTheirs |-> 1, ret |-> r]
    /\ UNCHANGED <<mapWallet, blockChain, crypt, conf>>
    /\ UNCHANGED <<poolVars, bookVars>>

NextSelect == CallSelectCoinsMinConf \/ CallSelectCoins

SpecSelect == InitSelect /\ [][NextSelect]_vars

\* -------------------------------------------------- claims on coin selection
\* The value of the output an outpoint names.
CoinValue(c) == mapWallet[c[1]].vout[c[2]].nValue

\* The outputs SelectCoinsMinConf may choose among for the given thresholds.
EligibleCoins(nConfMine, nConfTheirs) ==
    {c \in UNION {{<<h, i>> : i \in DOMAIN mapWallet[h].vout} : h \in DOMAIN mapWallet} :
        /\ ScansRecord(mapWallet[c[1]], nConfMine, nConfTheirs)
        /\ ~IsSpent(mapWallet[c[1]], c[2])
        /\ IsMine(mapWallet[c[1]].vout[c[2]])
        /\ CoinValue(c) > 0}

SumCoins(S) == SumOver(S, [c \in S |-> CoinValue(c)])

\* C1: when a selection succeeds, the returned total nValueRet is the sum of the
\* values of the returned coins and is at least the requested target.
C1_SelectedTotalMeetsTarget ==
    (sel.op # "none" /\ sel.ret.fOk) =>
        /\ sel.ret.nValueRet = SumCoins(sel.ret.setCoinsRet)
        /\ sel.ret.nValueRet >= sel.nTargetValue

\* A selection that the randomized subset search decided: several coins, more
\* than the target, and not all of the candidates.
C1_Witness ==
    /\ sel.op = "SelectCoinsMinConf" /\ sel.ret.fOk
    /\ Cardinality(sel.ret.setCoinsRet) = 2
    /\ sel.ret.nValueRet > sel.nTargetValue
    /\ Cardinality(EligibleCoins(sel.nConfMine, sel.nConfTheirs)) = 3

\* C6: SelectCoinsMinConf fails exactly when the eligible candidates for its
\* thresholds sum to less than the target, and SelectCoins (hence
\* CreateTransaction, which returns false when it fails) exactly when those for
\* the thresholds (0,1) do.
C6_FailsIffInsufficient ==
    sel.op # "none" =>
        (~sel.ret.fOk <=>
            SumCoins(EligibleCoins(sel.nConfMine, sel.nConfTheirs)) < sel.nTargetValue)

\* A failed selection although some candidates were eligible.
C6_Witness ==
    /\ sel.op = "SelectCoinsMinConf" /\ ~sel.ret.fOk
    /\ SumCoins(EligibleCoins(sel.nConfMine, sel.nConfTheirs)) = sel.nTargetValue - 1
    /\ Cardinality(EligibleCoins(sel.nConfMine, sel.nConfTheirs)) >= 2

\* The candidates of the call made, those below the target plus CENT and those
\* at or above it.
SelCandidates == EligibleCoins(sel.nConfMine, sel.nConfTheirs)
SelLower == {c \in SelCandidates : CoinValue(c) < sel.nTargetValue + CENT}
SelLarger == {c \in SelCandidates : CoinValue(c) >= sel.nTargetValue + CENT}
SelNoExact == \A c \in SelCandidates : CoinValue(c) # sel.nTargetValue

\* C13: when some candidate of SelectCoinsMinConf has exactly the target's
\* value, the call succeeds and returns one coin, of that value, whatever the
\* other candidates and the shuffle order.
C13_ExactMatchReturned ==
    (sel.op = "SelectCoinsMinConf" /\ ~SelNoExact) =>
        /\ sel.ret.fOk
        /\ Cardinality(sel.ret.setCoinsRet) = 1
        /\ \A c \in sel.ret.setCoinsRet :
               c \in SelCandidates /\ CoinValue(c) = sel.nTargetValue
        /\ sel.ret.nValueRet = sel.nTargetValue

\* An exact match returned among a smaller and a larger candidate.
C13_Witness ==
    /\ sel.op = "SelectCoinsMinConf" /\ ~SelNoExact /\ sel.ret.fOk
    /\ \E c \in SelCandidates : CoinValue(c) < sel.nTargetValue
    /\ \E c \in SelCandidates : CoinValue(c) > sel.nTargetValue

\* C14: when no candidate equals the target and the candidates below the
\* target plus CENT sum to the target or to the target plus CENT, the call
\* returns exactly those candidates, even when a larger candidate exists.
C14_AllLowerReturned ==
    (/\ sel.op = "SelectCoinsMinConf" /\ SelNoExact
     /\ SumCoins(SelLower) \in {sel.nTargetValue, sel.nTargetValue + CENT}) =>
        /\ sel.ret.fOk
        /\ sel.ret.setCoinsRet = SelLower
        /\ sel.ret.nValueRet = SumCoins(SelLower)

\* Several lower candidates returned although a larger candidate exists.
C14_Witness ==
    /\ sel.op = "SelectCoinsMinConf" /\ SelNoExact /\ sel.ret.fOk
    /\ SumCoins(SelLower) \in {sel.nTargetValue, sel.nTargetValue + CENT}
    /\ Cardinality(SelLower) >= 2
    /\ SelLarger # {}
    /\ sel.ret.setCoinsRet = SelLower

\* C15: when no candidate equals the target, a candidate at or above the target
\* plus CENT exists and the lower candidates sum to less than the target plus
\* CENT and not to the target, the call returns exactly one coin, a candidate
\* of the least value among those at or above the target plus CENT.
C15_LowestLargerReturned ==
    (/\ sel.op = "SelectCoinsMinConf" /\ SelNoExact
     /\ SelLarger # {}
     /\ SumCoins(SelLower) < sel.nTargetValue + CENT
     /\ SumCoins(SelLower) # sel.nTargetValue) =>
        /\ sel.ret.fOk
        /\ Cardinality(sel.ret.setCoinsRet) = 1
        /\ \A c \in sel.ret.setCoinsRet :
               /\ c \in SelLarger
               /\ \A d \in SelLarger : CoinValue(c) <= CoinValue(d)
               /\ sel.ret.nValueRet = CoinValue(c)

\* The smaller of two larger candidates of different values returned, a lower
\* candidate being there too.
C15_Witness ==
    /\ sel.op = "SelectCoinsMinConf" /\ SelNoExact /\ sel.ret.fOk
    /\ SumCoins(SelLower) < sel.nTargetValue + CENT
    /\ SumCoins(SelLower) # sel.nTargetValue
    /\ SelLower # {}
    /\ \E c, d \in SelLarger : CoinValue(c) < CoinValue(d)
    /\ sel.ret.setCoinsRet \subseteq SelLarger

\* C16: every coin SelectCoinsMinConf returns is an unspent output of the
\* wallet's, of positive value, of a record that is final, passes IsConfirmed,
\* is not an immature coinbase and is as deep as nConfMine when it is from this
\* wallet and as nConfTheirs otherwise.
C16_ReturnedCoinsEligible ==
    sel.op = "SelectCoinsMinConf" =>
        \A c \in sel.ret.setCoinsRet :
            /\ c[1] \in DOMAIN mapWallet /\ c[2] \in DOMAIN mapWallet[c[1]].vout
            /\ ~IsSpent(mapWallet[c[1]], c[2])
            /\ IsMine(mapWallet[c[1]].vout[c[2]])
            /\ CoinValue(c) > 0
            /\ isFinal(c[1])
            /\ IsConfirmed(mapWallet[c[1]])
            /\ ~(mapWallet[c[1]].coinbase /\ getBlocksToMaturity(c[1]) > 0)
            /\ getDepthInMainChain(c[1]) >=
                  (IF IsFromMe(mapWallet[c[1]]) THEN sel.nConfMine ELSE sel.nConfTheirs)

\* A selection of two coins from a wallet one of whose records is too shallow
\* for the thresholds of the call.
C16_Witness ==
    /\ sel.op = "SelectCoinsMinConf" /\ sel.ret.fOk
    /\ Cardinality(sel.ret.setCoinsRet) = 2
    /\ \E h \in DOMAIN mapWallet :
          /\ ScansRecordAnyDepth(mapWallet[h], sel.nConfMine, sel.nConfTheirs)
          /\ ~ScansRecord(mapWallet[h], sel.nConfMine, sel.nConfTheirs)

\* C17: SelectCoins returns the result of the first of the thresholds (1,6),
\* (1,1), (0,1) under which the candidates reach the target, and fails only
\* when they do under none: a coin that does not meet stricter thresholds is
\* returned only when the coins that meet them sum to less than the target.
C17_StrictestThresholdsFirst ==
    sel.op = "SelectCoins" =>
        /\ ~sel.ret.fOk <=> SumCoins(EligibleCoins(0, 1)) < sel.nTargetValue
        /\ sel.ret.setCoinsRet \subseteq EligibleCoins(0, 1)
        /\ SumCoins(EligibleCoins(1, 1)) >= sel.nTargetValue
              => sel.ret.setCoinsRet \subseteq EligibleCoins(1, 1)
        /\ SumCoins(EligibleCoins(1, 6)) >= sel.nTargetValue
              => sel.ret.setCoinsRet \subseteq EligibleCoins(1, 6)

\* A coin of depth 1 received from others returned because the coins of depth
\* 6 do not reach the target.
C17_Witness ==
    /\ sel.op = "SelectCoins" /\ sel.ret.fOk
    /\ EligibleCoins(1, 6) # {}
    /\ \E c \in sel.ret.setCoinsRet : c \notin EligibleCoins(1, 6)

\* ------------------------------------------------------ Wallet::GetBalance
\* CWalletTx::GetAvailableCredit(): the values of the outputs of the record
\* that are unspent and owned.
GetAvailableCredit(wtx) ==
    SumSeq([i \in DOMAIN wtx.vout |->
               IF ~IsSpent(wtx, i) /\ IsMine(wtx.vout[i]) THEN wtx.vout[i].nValue ELSE 0])

\* A balance that counts every record, whatever the flag.
GetBalanceOfAll(confirmed) ==
    SumOver(DOMAIN mapWallet, [h \in DOMAIN mapWallet |-> GetAvailableCredit(mapWallet[h])])

\* Wallet::GetBalance(confirmed), lines 589-604.
GetBalance(confirmed) ==
    SumOver({h \in DOMAIN mapWallet : ~(confirmed /\ ~IsConfirmed(mapWallet[h]))},
            [h \in DOMAIN mapWallet |-> GetAvailableCredit(mapWallet[h])])

\* The balances asked for so far: flag -> total.
BalancesAsked == IF last.op = "GetBalance" THEN last.nTotal ELSE << >>

CallGetBalance ==
    /\ \E confirmed \in BOOLEAN \ DOMAIN BalancesAsked :
          last' = [op |-> "GetBalance",
                   nTotal |-> (confirmed :> GetBalance(confirmed)) @@ BalancesAsked]
    /\ UNCHANGED <<mapWallet, blockChain, crypt, sel, conf, poolVars>>
    /\ UNCHANGED <<walletDb, vWalletUpdated, vchDefaultKey, mapAddressBook,
                   mapRequestCount, accepted, send>>

\* A coin selection on the wallet whose balance is asked for afterwards.
SelectBeforeBalance == last.op = "none" /\ NextSelect

NextBalance == CallGetBalance \/ SelectBeforeBalance

SpecBalance == InitSelect /\ [][NextBalance]_vars

\* The owned, unspent outputs of the records of the wallet, of the confirmed
\* records only when the flag is set.
CreditCoins(confirmed) ==
    {c \in UNION {{<<h, i>> : i \in DOMAIN mapWallet[h].vout} : h \in DOMAIN mapWallet} :
        /\ ~IsSpent(mapWallet[c[1]], c[2])
        /\ IsMine(mapWallet[c[1]].vout[c[2]])
        /\ confirmed => IsConfirmed(mapWallet[c[1]])}

\* C40: GetBalance(true) is the sum of the owned, unspent outputs of the
\* records for which IsConfirmed holds, GetBalance(false) that sum over all
\* records; the confirmed balance is at most the other, and at least the
\* target of any coin selection that succeeds.
C40_BalanceCoversSelection ==
    /\ \A b \in DOMAIN BalancesAsked : BalancesAsked[b] = SumCoins(CreditCoins(b))
    /\ DOMAIN BalancesAsked = BOOLEAN => BalancesAsked[TRUE] <= BalancesAsked[FALSE]
    /\ (TRUE \in DOMAIN BalancesAsked /\ sel.op # "none" /\ sel.ret.fOk)
          => BalancesAsked[TRUE] >= sel.nTargetValue

\* Both balances were asked for on a wallet with a record that is not
\* confirmed, and a selection for a positive target succeeded.
C40_Witness ==
    /\ DOMAIN BalancesAsked = BOOLEAN
    /\ 0 < BalancesAsked[TRUE] /\ BalancesAsked[TRUE] < BalancesAsked[FALSE]
    /\ sel.op = "SelectCoins" /\ sel.ret.fOk /\ sel.nTargetValue > 0
    /\ BalancesAsked[TRUE] > sel.nTargetValue

\* ------------------------------------------ the confirmation walk as a function
RECURSIVE SeqOfSet(_)
\* The elements of a finite set of numbers in increasing order.
SeqOfSet(S) ==
    IF S = {} THEN <<>>
    ELSE LET m == CHOOSE x \in S : \A y \in S : x <= y IN <<m>> \o SeqOfSet(S \ {m})

\* The inputs of a transaction that spends output 1 of each transaction of ins,
\* or an output of a transaction unknown to the wallet when ins is empty.
InputsFrom(ins) ==
    IF ins = {} THEN <<<<NullHash, 1>>>>
    ELSE [i \in 1..Cardinality(ins) |-> <<SeqOfSet(ins)[i], 1>>]

RECURSIVE Ancestors(_, _)
\* The transactions reachable from h through the inputs ins[.].
Ancestors(ins, h) == ins[h] \cup UNION {Ancestors(ins, g) : g \in ins[h]}

\* A wallet of NumTx records, record h spending the records ins[h] (of smaller
\* hash) and carrying as supporting transactions all of its ancestors, or none.
GraphWallet(ins, sup) ==
    [h \in TxIds |->
        [TheirTx(h, 1) EXCEPT
            !.vin = InputsFrom(ins[h]),
            !.fFromMe = (ins[h] # {}),
            !.vtxPrev = IF sup[h]
                        THEN LET a == SeqOfSet(Ancestors(ins, h)) IN
                             [i \in DOMAIN a |-> [hash |-> a[i], vin |-> InputsFrom(ins[a[i]])]]
                        ELSE <<>>]]

\* The spending graphs: record h spends records of smaller hash only.
SpendGraphs == {ins \in [TxIds -> SUBSET TxIds] : \A h \in TxIds : \A g \in ins[h] : g < h}

InitConfirm ==
    \E ins \in SpendGraphs :
      \E sup \in {f \in [TxIds -> BOOLEAN] : \A h \in TxIds : ins[h] = {} => ~f[h]} :
        \E final \in [TxIds -> BOOLEAN], depth \in [TxIds -> 0..1] :
            /\ mapWallet = GraphWallet(ins, sup)
            /\ blockChain = [final |-> final, depth |-> depth,
                             maturity |-> [h \in TxIds |-> 0]]
            /\ sel = NoSel
            /\ conf = NoConf
            /\ PoolUnused /\ BookUnused

CallIsConfirmed ==
    /\ conf.hash = NullHash
    /\ \E h \in DOMAIN mapWallet :
          \E w \in {IsConfirmedWalk(mapWallet[h])} :
              conf' = [hash |-> h, ret |-> w.ret, vWorkQueue |-> w.vWorkQueue,
                       nVisited |-> w.nVisited]
    /\ UNCHANGED <<mapWallet, blockChain, crypt, sel>>
    /\ UNCHANGED <<poolVars, bookVars>>

NextConfirm == CallIsConfirmed

SpecConfirm == InitConfirm /\ [][NextConfirm]_vars

\* ------------------------------------------- claims on the confirmation walk
\* The supporting transactions of tx, by hash.
SupportHashes(tx) == {tx.vtxPrev[i].hash : i \in DOMAIN tx.vtxPrev}
SupportOf(tx, h) == tx.vtxPrev[CHOOSE i \in DOMAIN tx.vtxPrev : tx.vtxPrev[i].hash = h]
InputHashes(t) == {t.vin[i][1] : i \in DOMAIN t.vin}

\* The confirmation policy for transaction t on the walk from record tx: t is
\* final, and is in the chain or is self-originated with every input transaction
\* in the supporting set of tx and itself passing the policy.
RECURSIVE PolicyOk(_, _, _)
PolicyOk(tx, t, fuel) ==
    /\ isFinal(t.hash)
    /\ \/ getDepthInMainChain(t.hash) >= 1
       \/ /\ IsFromMe(t)
          /\ fuel > 0
          /\ \A h \in InputHashes(t) :
                h \in SupportHashes(tx) /\ PolicyOk(tx, SupportOf(tx, h), fuel - 1)

\* C7: IsConfirmed returns true for a final, self-originated record of depth 0
\* whose input transactions are all in its supporting set, each final and of
\* depth at least 1.
C7_UnconfirmedOwnIsConfirmed ==
    LET tx == mapWallet[conf.hash] IN
    (/\ conf.hash # NullHash
     /\ isFinal(tx.hash) /\ getDepthInMainChain(tx.hash) = 0 /\ IsFromMe(tx)
     /\ \A h \in InputHashes(tx) :
           h \in SupportHashes(tx) /\ isFinal(h) /\ getDepthInMainChain(h) >= 1)
    => conf.ret

\* C8: whenever IsConfirmed returns true the record passes the confirmation
\* policy: a non-final record, a depth-0 record not from this wallet, or a walk
\* that misses an ancestor in the supporting set yields false.
C8_ConfirmedIsSound ==
    (conf.hash # NullHash /\ conf.ret) =>
        PolicyOk(mapWallet[conf.hash], AsMerkleTx(mapWallet[conf.hash]), NumTx)

\* IsConfirmed has answered true for a record of this wallet's own making.
C8_Witness ==
    /\ conf.hash # NullHash /\ conf.ret
    /\ IsFromMe(mapWallet[conf.hash])
    /\ mapWallet[conf.hash].vtxPrev # <<>>

\* C37: IsConfirmed ends for every record whose supporting set is finite and
\* acyclic: the work queue starts with the record itself, every later entry is
\* an entry of the record's supporting set, the loop takes up no more entries
\* than the queue holds, and the queue stays within the vtxPrev.size() + 1
\* entries reserved for it.
C37_WalkIsBounded ==
    conf.hash # NullHash =>
        /\ conf.vWorkQueue # <<>> =>
              conf.vWorkQueue[1] = AsMerkleTx(mapWallet[conf.hash])
        /\ \A i \in DOMAIN conf.vWorkQueue :
              i > 1 => conf.vWorkQueue[i] \in Range(mapWallet[conf.hash].vtxPrev)
        /\ conf.nVisited <= Len(conf.vWorkQueue)
        /\ Len(conf.vWorkQueue) <= Len(mapWallet[conf.hash].vtxPrev) + 1
        /\ conf.ret => conf.nVisited = Len(conf.vWorkQueue)

\* A walk that came to the inputs of a record with a supporting set.
C37_Witness ==
    /\ conf.hash # NullHash /\ conf.nVisited = 1
    /\ mapWallet[conf.hash].vtxPrev # <<>>
    /\ Len(mapWallet[conf.hash].vin) > 1
    /\ getDepthInMainChain(conf.hash) = 0


\* ------------------------------------------------- the key pool protocol
\* An idle wallet: no record matters to the key pool.
InitKeyPool ==
    /\ mapWallet = << >>
    /\ blockChain = [final |-> << >>, depth |-> << >>, maturity |-> << >>]
    /\ sel = NoSel /\ conf = NoConf
    /\ setKeyPool = {} /\ poolDb = << >> /\ nKeys = 0 /\ fLocked = FALSE
    /\ args \in [fFileBacked : BOOLEAN, keypool : 0..MaxPoolTarget]
    /\ resv = [c \in Callers |-> NoReservation]
    /\ kpLog = <<>> /\ kpThrew = FALSE
    /\ BookUnused /\ crypt = OneKeyCrypt

NextKeyPool ==
    \/ CallTopUpKeyPool
    \/ \E c \in Callers : CallReserveKeyFromKeyPool(c)
    \/ \E c \in Callers : CallKeepKey(c)
    \/ \E c \in Callers : CallReturnKey(c)
    \/ LockWallet
    \/ UnlockWallet

SpecKeyPool == InitKeyPool /\ [][NextKeyPool]_vars

\* C2: two reservations outstanding at the same time never hold the same
\* sequence index.
C2_ReservationsDistinct ==
    \A c, d \in Callers :
        (c # d /\ resv[c].nIndex # NoIndex /\ resv[d].nIndex # NoIndex)
            => resv[c].nIndex # resv[d].nIndex

\* C10: every index TopUpKeyPool appends is greater than every index it
\* appended before.
C10_IndicesIncrease ==
    \A i, j \in DOMAIN kpLog : i < j => kpLog[i] < kpLog[j]

\* C11: every index of the available set setKeyPool has a durable key pool
\* record, which a later reservation of that index can read.
C11_AvailableIndicesHaveRecords ==
    setKeyPool \subseteq DOMAIN poolDb

\* A reservation by caller c in which no durable write failed: every key
\* generated was appended to the pool.
ReservedBy(c) ==
    /\ CallReserveKeyFromKeyPool(c)
    /\ nKeys' - nKeys = Len(kpLog') - Len(kpLog)

\* C24: ReserveKeyFromKeyPool returns the sentinel index -1 only when the
\* wallet is locked and the available set is empty; on an unlocked wallet it
\* always returns a valid index; the index returned is the smallest of the
\* available set after the top-up and is removed from that set.
C24_ReserveGivesSmallestIndex ==
    [][\A c \in Callers :
          ReservedBy(c) =>
            /\ resv'[c].nIndex = NoIndex => (fLocked /\ setKeyPool = {})
            /\ ~fLocked => (resv'[c].nIndex # NoIndex /\ resv'[c].vchPubKey # NoKey)
            /\ resv'[c].nIndex # NoIndex =>
                  /\ resv'[c].nIndex \notin setKeyPool'
                  /\ \A i \in setKeyPool' : resv'[c].nIndex < i]_vars

\* ------------------------------------------------- GetOldestKeyPoolTime
\* Whether TopUpKeyPool would leave the pool as it is.
NeedsNoTopUp == fLocked \/ Cardinality(setKeyPool) >= Max2(args.keypool, 0) + 1

\* Wallet::GetOldestKeyPoolTime, lines 1183-1187: the call reserves a key
\* into its local nIndex and keypool, and returns at once when there is none.
\* before and after are the pool as the step found it and left it.
OldestReserve ==
    /\ last.op = "none"
    /\ \E nWrites \in WriteBudgets :
        \E r \in {ReserveKeyFromKeyPool(PoolNow, nWrites)} :
            /\ r.pool.nKeys <= MaxKeys
            /\ SetPool(r.pool)
            /\ last' = [op |-> IF r.pool.threw THEN "GetOldestKeyPoolTime: threw"
                               ELSE IF r.nIndex = NoIndex THEN "GetOldestKeyPoolTime"
                               ELSE "GetOldestKeyPoolTime: reserved",
                        nIndex |-> r.nIndex, vchPubKey |-> r.vchPubKey,
                        fNoTopUp |-> NeedsNoTopUp, fLocked |-> fLocked,
                        before |-> [PoolNow EXCEPT !.threw = kpThrew],
                        after |-> [r.pool EXCEPT !.threw = kpThrew \/ r.pool.threw]]
            /\ UNCHANGED <<fLocked, args, resv>>
            /\ UNCHANGED <<walletVars, callVars, crypt>>
            /\ UNCHANGED <<walletDb, vWalletUpdated, vchDefaultKey, mapAddressBook,
                           mapRequestCount, accepted, send>>

\* Line 1188: the call returns the key it reserved.
OldestReturn ==
    /\ last.op = "GetOldestKeyPoolTime: reserved"
    /\ \E p \in {ReturnKey(PoolNow, last.nIndex)} :
        /\ SetPool(p)
        /\ last' = [last EXCEPT !.op = "GetOldestKeyPoolTime"]
    /\ UNCHANGED <<fLocked, args, resv>>
    /\ UNCHANGED <<walletVars, callVars, crypt>>
    /\ UNCHANGED <<walletDb, vWalletUpdated, vchDefaultKey, mapAddressBook,
                   mapRequestCount, accepted, send>>

\* The calls on the pool that come before the one of GetOldestKeyPoolTime, and
\* the top-up by another thread that may come between its two steps.
PoolCallBefore == last.op = "none" /\ NextKeyPool
TopUpBetween == last.op = "GetOldestKeyPoolTime: reserved" /\ CallTopUpKeyPool

NextOldest ==
    \/ OldestReserve
    \/ OldestReturn
    \/ PoolCallBefore
    \/ TopUpBetween

SpecOldest == InitKeyPool /\ [][NextOldest]_vars

\* The pool after the step, and the reservation that would come next on it
\* when no durable write can be made.
PoolNext == [setKeyPool |-> setKeyPool', poolDb |-> poolDb', nKeys |-> nKeys',
             kpLog |-> kpLog', threw |-> FALSE]
ReserveNext == ReserveKeyFromKeyPool(PoolNext, 0)

\* C36: on a pool that needs no top-up, ReserveKeyFromKeyPool returning index i
\* followed by ReturnKey(i), with no other call in between, leaves the available
\* set and the durable pool records as they were, no key having been generated,
\* and the next reservation gives the same index and key: GetOldestKeyPoolTime
\* consumes no key.
C36_ReserveReturnRoundTrip ==
    [][(/\ last.op = "GetOldestKeyPoolTime: reserved"
        /\ last'.op = "GetOldestKeyPoolTime"
        /\ last.fNoTopUp
        /\ fLocked = last.fLocked
        /\ [PoolNow EXCEPT !.threw = kpThrew] = last.after)
       => (/\ setKeyPool' = last.before.setKeyPool
           /\ poolDb' = last.before.poolDb
           /\ nKeys' = last.before.nKeys
           /\ kpLog' = last.before.kpLog
           /\ ~ReserveNext.pool.threw
           /\ ReserveNext.nIndex = last.nIndex
           /\ ReserveNext.vchPubKey = last.vchPubKey)]_vars

\* The pair has run on a pool of two keys.
C36_Witness ==
    /\ last.op = "GetOldestKeyPoolTime" /\ last.nIndex # NoIndex
    /\ last.fNoTopUp /\ fLocked = last.fLocked
    /\ Cardinality(setKeyPool) = 2
    /\ setKeyPool = last.before.setKeyPool /\ poolDb = last.before.poolDb

\* ------------------------------------------------- adding to the wallet
\* The transactions of a snapshot as the network delivers them.
TxOf(wtx) == [hash |-> wtx.hash, vin |-> wtx.vin, vout |-> wtx.vout,
              coinbase |-> wtx.coinbase]

\* The state at a call: the records of a snapshot the wallet holds are those of
\* held; the output of record k, if any, pays to the default key, which is
\* key 1.
InitAdd ==
    \E dep \in {"none", "own1", "spent", "notmine"}, held \in SUBSET TxIds,
       k \in TxIds \cup {NullHash} :
        LET all == SnapshotWallet([h \in TxIds |-> 1], dep)
            univ == [h \in TxIds |->
                        IF h = k THEN [all[h] EXCEPT !.vout[1].key = 1] ELSE all[h]]
        IN  /\ mapWallet = [h \in held |-> univ[h]]
            /\ blockChain = [final |-> SnapshotChain(dep).final,
                             depth |-> SnapshotChain(dep).depth,
                             maturity |-> SnapshotChain(dep).maturity,
                             tx |-> univ]
            /\ sel = NoSel /\ conf = NoConf
            /\ setKeyPool = {} /\ poolDb = << >> /\ nKeys = 1 /\ fLocked = FALSE
            /\ args \in [fFileBacked : {TRUE}, keypool : 0..MaxPoolTarget]
            /\ resv = [c \in Callers |-> NoReservation]
            /\ kpLog = <<>> /\ kpThrew = FALSE
            /\ walletDb = mapWallet /\ vWalletUpdated = <<>> /\ vchDefaultKey = 1
            /\ mapAddressBook = << >> /\ mapRequestCount = << >> /\ accepted = {}
            /\ send = [c \in Callers |-> NoSend]
            /\ last = NoCall /\ crypt = NoCrypt

\* The records AddToWallet may be handed: a record of the universe as it is or
\* as this wallet made it, found in a block or not, some outputs spent.
AddInputs ==
    {[blockChain.tx[h] EXCEPT !.hashBlock = b, !.vMerkleBranch = b,
                                 !.nIndex = IF b = NoBlock THEN -1 ELSE 0,
                                 !.fFromMe = f,
                                 !.vfSpent = [i \in DOMAIN @ |-> sp]] :
        h \in DOMAIN blockChain.tx, b \in {NoBlock, 1}, f \in BOOLEAN, sp \in BOOLEAN}

\* What the frame of a call on the records leaves alone.
AddFrame == UNCHANGED <<blockChain, crypt, sel, conf, fLocked, args, resv, send>>

CallAddToWallet ==
    /\ last.op = "none"
    /\ \E wtxIn \in AddInputs, nWrites \in WriteBudgets :
        \E r \in {AddToWallet(WalletNow(nWrites), wtxIn)} :
        /\ r.W.nKeys <= MaxKeys
        /\ SetWallet(r.W)
        /\ last' = [op |-> "AddToWallet", hash |-> wtxIn.hash, ret |-> r.ret,
                    fWriteFailed |-> r.fWriteFailed, threw |-> r.W.threw,
                    wtxIn |-> wtxIn]
        /\ AddFrame

\* AddToWallet is called again with the record of the call before, which has
\* returned.
CallAddToWalletAgain ==
    /\ last.op = "AddToWallet" /\ ~last.threw
    /\ \E nWrites \in WriteBudgets :
        \E r \in {AddToWallet(WalletNow(nWrites), last.wtxIn)} :
        /\ r.W.nKeys <= MaxKeys
        /\ SetWallet(r.W)
        /\ last' = [op |-> "AddToWalletAgain", hash |-> last.hash, ret |-> r.ret,
                    fWriteFailed |-> r.fWriteFailed, threw |-> r.W.threw,
                    fWrote |-> r.fWrote, first |-> last.ret]
        /\ AddFrame

CallAddToWalletIfInvolvingMe ==
    /\ last.op = "none"
    /\ \E h \in DOMAIN blockChain.tx, pblock \in {NoBlock, 1}, fUpdate \in BOOLEAN,
          nWrites \in WriteBudgets :
        \E r \in {AddToWalletIfInvolvingMe(WalletNow(nWrites),
                                            TxOf(blockChain.tx[h]), pblock, fUpdate)} :
            /\ r.W.nKeys <= MaxKeys
            /\ SetWallet(r.W)
            /\ last' = [op |-> "AddToWalletIfInvolvingMe", hash |-> h, ret |-> r.ret,
                        fWriteFailed |-> r.fWriteFailed, threw |-> r.W.threw]
            /\ AddFrame

NextAdd == CallAddToWallet \/ CallAddToWalletIfInvolvingMe \/ CallAddToWalletAgain

SpecAdd == InitAdd /\ [][NextAdd]_vars

\* C5: a call of AddToWallet in which the write of the record fails returns
\* failure and leaves mapWallet as it was before the call.
C5_FailedWriteLeavesMapWallet ==
    [][(last'.op = "AddToWallet" /\ last'.fWriteFailed)
          => (~last'.ret /\ mapWallet' = mapWallet)]_vars

\* C12: a second call of AddToWallet with the same record leaves mapWallet
\* (records, receipt times, from-me flags, block references, merkle data and
\* spent bits) as the first call left it and does not write the record.
C12_AddToWalletIdempotent ==
    [][last'.op = "AddToWalletAgain"
          => (mapWallet' = mapWallet /\ ~last'.fWrote /\ ~last'.fWriteFailed)]_vars

\* The same for a second call that follows a first call that returned true.
C12_IdempotentAfterSuccess ==
    [][(last'.op = "AddToWalletAgain" /\ last'.first)
          => (mapWallet' = mapWallet /\ ~last'.fWrote /\ ~last'.fWriteFailed)]_vars

\* ------------------------------------------------------- WalletUpdateSpent
\* The state at a call: of each record of TxIds the wallet holds none, or one
\* whose output is owned and unspent, owned and spent, or not owned.
CoinStates == {"absent", "unspent", "spent", "notmine"}

InitSpent ==
    \E st \in [TxIds -> CoinStates] :
        /\ mapWallet = [h \in {g \in TxIds : st[g] # "absent"} |->
                           [TheirTx(h, 1) EXCEPT
                               !.vfSpent = <<st[h] = "spent">>,
                               !.vout[1].mine = (st[h] # "notmine")]]
        /\ blockChain = [final    |-> [h \in TxIds |-> TRUE],
                         depth    |-> [h \in TxIds |-> 6],
                         maturity |-> [h \in TxIds |-> 0]]
        /\ sel = NoSel /\ conf = NoConf
        /\ setKeyPool = {} /\ poolDb = << >> /\ nKeys = 1 /\ fLocked = FALSE
        /\ args = [fFileBacked |-> TRUE, keypool |-> 0]
        /\ resv = [c \in Callers |-> NoReservation]
        /\ kpLog = <<>> /\ kpThrew = FALSE
        /\ walletDb = mapWallet /\ vWalletUpdated = <<>> /\ vchDefaultKey = 1
        /\ mapAddressBook = << >> /\ mapRequestCount = << >> /\ accepted = {}
        /\ send = [c \in Callers |-> NoSend]
        /\ last = NoCall /\ crypt = NoCrypt

\* The inputs of the transactions handed to WalletUpdateSpent: one outpoint or
\* two, of records of TxIds, the same one twice included.
SpentInputs ==
    {<<<<h, 1>>>> : h \in TxIds} \cup {<<<<g, 1>>, <<h, 1>>>> : g \in TxIds, h \in TxIds}

\* The durable writes a call may see succeed: none, one, or both.
SpentBudgets == {0, 1, 2}

CallWalletUpdateSpent ==
    /\ last.op = "none"
    /\ \E vin \in SpentInputs, nWrites \in SpentBudgets :
        \E W \in {WalletUpdateSpent(WalletNow(nWrites), [vin |-> vin])} :
            /\ SetWallet(W)
            /\ last' = [op |-> "WalletUpdateSpent", vin |-> vin,
                        nWrites |-> nWrites]
            /\ AddFrame

\* WalletUpdateSpent is called again for the transaction of the call before.
CallWalletUpdateSpentAgain ==
    /\ last.op = "WalletUpdateSpent"
    /\ \E nWrites \in SpentBudgets :
        \E W \in {WalletUpdateSpent(WalletNow(nWrites), [vin |-> last.vin])} :
            /\ SetWallet(W)
            /\ last' = [op |-> "WalletUpdateSpentAgain", vin |-> last.vin,
                        nWrites |-> nWrites]
            /\ AddFrame

\* After it, AddToWallet is handed a copy of a record the wallet holds, its
\* output spent or not as sp tells.
ThenAddToWallet ==
    /\ last.op = "WalletUpdateSpent"
    /\ \E h \in DOMAIN mapWallet, sp \in BOOLEAN, b \in {NoBlock, 1},
          nWrites \in SpentBudgets :
        \E r \in {AddToWallet(WalletNow(nWrites),
                               [mapWallet[h] EXCEPT !.vfSpent = <<sp>>,
                                                    !.hashBlock = b,
                                                    !.vMerkleBranch = b,
                                                    !.nIndex = IF b = NoBlock THEN -1 ELSE 0])} :
            /\ SetWallet(r.W)
            /\ last' = [op |-> "AddToWallet", hash |-> h, ret |-> r.ret]
            /\ AddFrame

NextSpent == CallWalletUpdateSpent \/ CallWalletUpdateSpentAgain \/ ThenAddToWallet

SpecSpent == InitSpent /\ [][NextSpent]_vars

\* The records the call of WalletUpdateSpent for vin finds owned and unspent.
FoundSpent(vin) ==
    {h \in DOMAIN mapWallet :
        /\ \E i \in DOMAIN vin : vin[i] = <<h, 1>>
        /\ IsMine(mapWallet[h].vout[1]) /\ ~IsSpent(mapWallet[h], 1)}

RECURSIVE Ascending(_)
Ascending(S) ==
    IF S = {} THEN <<>> ELSE <<SetMin(S)>> \o Ascending(S \ {SetMin(S)})

\* _blockChain.getNumSpent(hash): the number of outputs of a transaction the
\* chain holds, negative for one it does not hold.
getNumSpent(h) == blockChain.numSpent[h]
\* _blockChain.isSpent(coin)
isSpent(coin) == coin \in blockChain.spent

\* Lines 483-492: the outputs of record hash from position i on; W.vMissingTx
\* collects what spentIn answers.
RECURSIVE ReacceptOutputs(_, _, _)
ReacceptOutputs(W, hash, i) ==
    IF i > getNumSpent(hash) THEN W
    ELSE IF IsSpent(W.mapWallet[hash], i) THEN ReacceptOutputs(W, hash, i + 1)
    ELSE IF ~isSpent(<<hash, i>>) /\ IsMine(W.mapWallet[hash].vout[i])
         THEN ReacceptOutputs(
                  [W EXCEPT !.mapWallet[hash] = MarkSpent(@, i),
                            !.vMissingTx = Append(@, blockChain.spentIn[<<hash, i>>])],
                  hash, i + 1)
         ELSE ReacceptOutputs(W, hash, i + 1)

\* Lines 467-508: one record of the walk over mapWallet.
ReacceptRecord(W, hash) ==
    LET wtx == W.mapWallet[hash] IN
    IF wtx.coinbase /\ IsSpent(wtx, 1) THEN W
    ELSE IF getNumSpent(hash) >= 0
         THEN IF getNumSpent(hash) # Len(wtx.vout) THEN W
              ELSE Then(ReacceptOutputs(W, hash, 1), LAMBDA W1 :
                       IF W1.mapWallet[hash] # wtx THEN WriteToDisk(W1, hash) ELSE W1)
         ELSE IF ~wtx.coinbase /\ hash \in blockChain.accepts
              THEN [W EXCEPT !.accepted = @ \cup {hash}]
              ELSE W

RECURSIVE ReacceptRecords(_, _)
ReacceptRecords(W, hashes) ==
    IF hashes = <<>> THEN W
    ELSE Then(ReacceptRecord(W, Head(hashes)), LAMBDA W1 :
             ReacceptRecords(W1, Tail(hashes)))

\* Wallet::ScanForWalletTransactions(genesis, false) over the blocks from
\* position b on: W.nFound counts the calls that returned true.
RECURSIVE ScanForWalletTransactions(_, _)
ScanForWalletTransactions(W, b) ==
    IF b > Len(blockChain.blocks) \/ W.threw THEN W
    ELSE Then(AddToWalletIfInvolvingMe(W, TxOf(blockChain.tx[blockChain.blocks[b]]),
                                       b, FALSE), LAMBDA r :
             ScanForWalletTransactions(
                 [r.W EXCEPT !.nFound = IF r.ret THEN @ + 1 ELSE @], b + 1))

\* Wallet::ReacceptWalletTransactions on wallet state W: the passes of
\* while (fRepeat).
RECURSIVE ReacceptWalletTransactions(_)
ReacceptWalletTransactions(W) ==
    Then(ReacceptRecords([W EXCEPT !.vMissingTx = <<>>, !.nFound = 0],
                         Ascending(DOMAIN W.mapWallet)), LAMBDA W1 :
        IF W1.vMissingTx = <<>> THEN W1
        ELSE Then(ScanForWalletTransactions(W1, 1), LAMBDA W2 :
                 IF W2.nFound > 0 /\ ~W2.threw THEN ReacceptWalletTransactions(W2)
                 ELSE W2))

\* The chain that holds the transactions of inChain, one to a block, the
\* highest hash in the first block.
RECURSIVE Descending(_)
Descending(S) ==
    IF S = {} THEN <<>> ELSE <<SetMax(S)>> \o Descending(S \ {SetMax(S)})

ChainOf(univ, inChain) ==
    [final    |-> [h \in DOMAIN univ |-> TRUE],
     depth    |-> [h \in DOMAIN univ |->
                     IF h \in inChain THEN Cardinality({g \in inChain : g <= h}) ELSE 0],
     maturity |-> [h \in DOMAIN univ |-> 0],
     tx       |-> univ,
     blocks   |-> Descending(inChain),
     numSpent |-> [h \in DOMAIN univ |-> IF h \in inChain THEN Len(univ[h].vout) ELSE -1],
     spent    |-> {c \in UNION {Range(univ[h].vin) : h \in inChain} : c[1] # NullHash},
     spentIn  |-> [c \in UNION {{<<h, i>> : i \in DOMAIN univ[h].vout} : h \in DOMAIN univ} |->
                     IF \E h \in inChain : c \in Range(univ[h].vin)
                     THEN CHOOSE h \in inChain : c \in Range(univ[h].vin)
                     ELSE NullHash],
     accepts  |-> DOMAIN univ \ inChain]

\* The state at a call: the wallet holds the records of held, the chain the
\* transactions of inChain.
InitReaccept ==
    \E dep \in {"none", "own1", "spent", "notmine", "immature"},
       held \in SUBSET TxIds, inChain \in SUBSET TxIds :
        LET univ == SnapshotWallet([h \in TxIds |-> 1], dep)
        IN  /\ mapWallet = [h \in held |-> univ[h]]
            /\ blockChain = ChainOf(univ, inChain)
            /\ sel = NoSel /\ conf = NoConf
            /\ setKeyPool = {} /\ poolDb = << >> /\ nKeys = 1 /\ fLocked = FALSE
            /\ args = [fFileBacked |-> TRUE, keypool |-> 0]
            /\ resv = [c \in Callers |-> NoReservation]
            /\ kpLog = <<>> /\ kpThrew = FALSE
            /\ walletDb = mapWallet /\ vWalletUpdated = <<>> /\ vchDefaultKey = 1
            /\ mapAddressBook = << >> /\ mapRequestCount = << >> /\ accepted = {}
            /\ send = [c \in Callers |-> NoSend]
            /\ last = NoCall /\ crypt = NoCrypt

CallReacceptWalletTransactions ==
    /\ last.op = "none"
    /\ \E nWrites \in WriteBudgets :
        \E W \in {ReacceptWalletTransactions(
                     [vMissingTx |-> <<>>, nFound |-> 0] @@ WalletNow(nWrites))} :
            /\ SetWallet(W)
            /\ last' = [op |-> "ReacceptWalletTransactions", threw |-> W.threw]
            /\ AddFrame

NextReaccept == CallReacceptWalletTransactions

SpecReaccept == InitReaccept /\ [][NextReaccept]_vars

\* ------------------------------------------------ ResendWalletTransactions
\* Times are scaled: five minutes (5 * 60 at line 547) are FiveMinutes ticks of
\* the clock, the spread of GetRand(30 * 60) at line 527 is ResendSpread ticks.
FiveMinutes == 2
ResendSpread == 2

\* The clock runs from 1 to MaxClock.
MaxClock == 4

\* The times at which the records of the wallet were received.
ReceiveTimes == {0, 1}

\* Lines 544-549: the records received more than five minutes before the best
\* block was. mapSorted orders them by nTimeReceived; the set they are
\* inserted into (line 572) keeps no order.
ResendCandidates(W, nBestReceivedTime) ==
    {h \in DOMAIN W : nBestReceivedTime - W[h].nTimeReceived > FiveMinutes}

\* Wallet::ResendWalletTransactions(hashes), lines 520-576. S holds the two
\* static variables of the function; nTime is GetTime(), nRand the draw of
\* GetRand, nBestReceivedTime the answer of _blockChain.getBestReceivedTime().
ResendWalletTransactions(S, W, hashes, nTime, nRand, nBestReceivedTime) ==
    IF nTime < S.nNextTime
    THEN [nNextTime |-> S.nNextTime, nLastTime |-> S.nLastTime,
          hashes |-> hashes, fRan |-> FALSE]
    ELSE IF S.nNextTime = 0
    THEN [nNextTime |-> nTime + nRand, nLastTime |-> S.nLastTime,
          hashes |-> hashes, fRan |-> FALSE]
    ELSE IF nBestReceivedTime < S.nLastTime
    THEN [nNextTime |-> nTime + nRand, nLastTime |-> S.nLastTime,
          hashes |-> hashes, fRan |-> FALSE]
    ELSE [nNextTime |-> nTime + nRand, nLastTime |-> nTime,
          hashes |-> hashes \cup ResendCandidates(W, nBestReceivedTime),
          fRan |-> TRUE]

\* The state before the first call: the statics are zero; every record of the
\* wallet was received at one of ReceiveTimes and is in a block or not.
InitResend ==
    \E t \in [TxIds -> ReceiveTimes], depth \in [TxIds -> 0..1] :
        /\ mapWallet = [h \in TxIds |-> [TheirTx(h, 1) EXCEPT !.nTimeReceived = t[h]]]
        /\ blockChain = [final    |-> [h \in TxIds |-> TRUE],
                         depth    |-> depth,
                         maturity |-> [h \in TxIds |-> 0],
                         nTime |-> 1, nBestReceivedTime |-> 1]
        /\ sel = NoSel /\ conf = NoConf
        /\ setKeyPool = {} /\ poolDb = << >> /\ nKeys = 1 /\ fLocked = FALSE
        /\ args = [fFileBacked |-> TRUE, keypool |-> 0]
        /\ resv = [c \in Callers |-> NoReservation]
        /\ kpLog = <<>> /\ kpThrew = FALSE
        /\ walletDb = mapWallet /\ vWalletUpdated = <<>> /\ vchDefaultKey = 1
        /\ mapAddressBook = << >> /\ mapRequestCount = << >> /\ accepted = {}
        /\ send = [c \in Callers |-> NoSend]
        /\ last = [op |-> "none", nNextTime |-> 0, nLastTime |-> 0,
                   hashes |-> {}, fRan |-> FALSE, nBestReceivedTime |-> 1]
        /\ crypt = NoCrypt

\* TransactionReminder::operator() (lines 1202-1205) hands an empty set to
\* ResendWalletTransactions. The statics of the function stay in the call
\* record.
CallResendWalletTransactions ==
    /\ \E nRand \in 0..(ResendSpread - 1) :
         \E r \in {ResendWalletTransactions(last, mapWallet, {}, blockChain.nTime,
                                            nRand, blockChain.nBestReceivedTime)} :
            last' = [op |-> "ResendWalletTransactions",
                     nNextTime |-> r.nNextTime, nLastTime |-> r.nLastTime,
                     hashes |-> r.hashes, fRan |-> r.fRan,
                     nBestReceivedTime |-> blockChain.nBestReceivedTime]
    /\ UNCHANGED <<mapWallet, blockChain, sel, conf, crypt, poolVars>>
    /\ UNCHANGED <<walletDb, vWalletUpdated, vchDefaultKey, mapAddressBook,
                   mapRequestCount, accepted, send>>

\* The clock advances.
ClockTick ==
    /\ blockChain.nTime < MaxClock
    /\ blockChain' = [blockChain EXCEPT !.nTime = @ + 1]
    /\ UNCHANGED <<mapWallet, sel, conf, crypt, poolVars, bookVars>>

\* A block is received and becomes the best block.
BlockReceived ==
    /\ blockChain.nBestReceivedTime < blockChain.nTime
    /\ blockChain' = [blockChain EXCEPT !.nBestReceivedTime = blockChain.nTime]
    /\ UNCHANGED <<mapWallet, sel, conf, crypt, poolVars, bookVars>>

NextResend == CallResendWalletTransactions \/ ClockTick \/ BlockReceived

SpecResend == InitResend /\ [][NextResend]_vars

\* C39: the hashes ResendWalletTransactions offers are those of records of the
\* wallet that are in no block and were received more than five minutes
\* before the best block was.
C39_ResendOnlyUnconfirmed ==
    (last.op = "ResendWalletTransactions" /\ last.fRan) =>
        \A h \in last.hashes :
            /\ h \in DOMAIN mapWallet
            /\ getDepthInMainChain(h) = 0
            /\ last.nBestReceivedTime - mapWallet[h].nTimeReceived > FiveMinutes

\* The hashes offered are of records received long enough ago.
ResendOffersOnlyOld ==
    (last.op = "ResendWalletTransactions" /\ last.fRan) =>
        \A h \in last.hashes :
            /\ h \in DOMAIN mapWallet
            /\ last.nBestReceivedTime - mapWallet[h].nTimeReceived > FiveMinutes

\* C9: the only owned coins whose spent flag ReacceptWalletTransactions sets
\* are coins the ledger's isSpent reports as spent.
C9_ReacceptMarksOnlyLedgerSpent ==
    [][last'.op = "ReacceptWalletTransactions" =>
          \A h \in DOMAIN mapWallet : \A i \in DOMAIN mapWallet[h].vout :
              (/\ IsMine(mapWallet[h].vout[i])
               /\ ~IsSpent(mapWallet[h], i)
               /\ IsSpent(mapWallet'[h], i)) => isSpent(<<h, i>>)]_vars

\* ---------------------------------------------------------------- sending
\* The least fee of a transaction that is not free, in the model's unit.
MIN_TX_FEE == 1
\* The 1000 bytes of line 859 and the size limit MAX_BLOCK_SIZE_GEN/5 of line
\* 854, in the model's unit of size: one input or one output.
KiloByte == 4
MaxTxBytes == 5
\* The priority above which Transaction::AllowFree answers true, and the depth
\* below which AddSupportingTransactions copies a parent's supporting set.
FreePriority == 2
COPY_DEPTH == 3

\* ::GetSerializeSize(wtxNew, SER_NETWORK)
GetSerializeSize(tx) == Len(tx.vin) + Len(tx.vout)

\* Transaction::GetMinFee(1, fAllowFree)
GetMinFee(tx, fAllowFree) ==
    LET nMinFee == IF fAllowFree THEN 0
                   ELSE (1 + GetSerializeSize(tx) \div KiloByte) * MIN_TX_FEE
    IN  IF nMinFee < MIN_TX_FEE /\ \E i \in DOMAIN tx.vout : tx.vout[i].nValue < CENT
        THEN MIN_TX_FEE ELSE nMinFee

\* The coins of S as a sequence, by hash and then by position.
RECURSIVE CoinSeq(_)
CoinSeq(S) ==
    IF S = {} THEN <<>>
    ELSE LET m == CHOOSE x \in S : \A y \in S :
                      x[1] < y[1] \/ (x[1] = y[1] /\ x[2] <= y[2])
         IN  <<m>> \o CoinSeq(S \ {m})

\* CWalletTx::AddSupportingTransactions: the transactions the inputs spend, each
\* after its own supporting set when it is less than COPY_DEPTH deep.
RECURSIVE SupportingOf(_, _)
SupportingOf(mw, vin) ==
    IF vin = <<>> THEN <<>>
    ELSE LET h == Head(vin)[1] IN
         (IF h \in DOMAIN mw
          THEN (IF getDepthInMainChain(h) < COPY_DEPTH THEN mw[h].vtxPrev ELSE <<>>)
               \o <<[hash |-> h, vin |-> mw[h].vin]>>
          ELSE <<>>) \o SupportingOf(mw, Tail(vin))

\* CReserveKey::GetReservedKey, ReturnKey and KeepKey on wallet state W and
\* reservation rk.  GetReservedKey falls back on the default key; with no
\* default key its assert stops the process, shown as threw.
GetReservedKey(W, rk) ==
    IF rk.nIndex # NoIndex THEN [W |-> W, rk |-> rk]
    ELSE Then(ReserveKey(W), LAMBDA r :
            IF r.W.threw THEN [W |-> r.W, rk |-> [rk EXCEPT !.nIndex = r.nIndex]]
            ELSE IF r.nIndex # NoIndex
            THEN [W |-> r.W, rk |-> [nIndex |-> r.nIndex, vchPubKey |-> r.vchPubKey]]
            ELSE [W |-> [r.W EXCEPT !.threw = (W.vchDefaultKey = NoKey)],
                  rk |-> [nIndex |-> NoIndex, vchPubKey |-> W.vchDefaultKey]])

\* A reservation forgotten without its index being given back.
ReserveDropKey(W, rk) == [W |-> W, rk |-> NoReservation]

ReserveReturnKey(W, rk) ==
    [W |-> IF rk.nIndex # NoIndex THEN ReturnKey(W, rk.nIndex) ELSE W,
     rk |-> NoReservation]

ReserveKeepKey(W, rk) ==
    [W |-> IF rk.nIndex # NoIndex THEN KeepKey(W, rk.nIndex) ELSE W,
     rk |-> NoReservation]

\* s with x inserted before position pos.
InsertAt(s, pos, x) == SubSeq(s, 1, pos - 1) \o <<x>> \o SubSeq(s, pos, Len(s))

\* Lines 764-772: the amounts are refused when there is none or when the sum of
\* the first k of them is negative for some k.
AmountsRefused(vecSend) ==
    \/ vecSend = <<>>
    \/ \E k \in DOMAIN vecSend :
          SumSeq([i \in 1..k |-> vecSend[i].nValue]) < 0

CreateFailed(W, rk, nFeeRet) ==
    [ret |-> FALSE, wtxNew |-> NoTx, nFeeRet |-> nFeeRet, W |-> W, rk |-> rk]

RECURSIVE FeeLoop(_, _, _, _, _)

\* A pass that ends the loop with whatever fee it was entered with.
FinishPassAnyFee(W, rk, vecSend, nValue, nFeeRet, s, vout) ==
    LET vin == CoinSeq(s.setCoinsRet)
        wtxNew == [hash |-> NullHash, vin |-> vin, vout |-> vout, fFromMe |-> TRUE,
                   vfSpent |-> [i \in DOMAIN vout |-> FALSE], hashBlock |-> 0,
                   nIndex |-> -1, vMerkleBranch |-> 0, coinbase |-> FALSE,
                   vtxPrev |-> SupportingOf(W.mapWallet, vin), nTimeReceived |-> 0]
    IN  IF W.threw \/ fLocked \/ GetSerializeSize(wtxNew) >= MaxTxBytes
        THEN {CreateFailed(W, rk, nFeeRet)}
        ELSE {[ret |-> TRUE, wtxNew |-> wtxNew, nFeeRet |-> nFeeRet,
               W |-> W, rk |-> rk]}

\* A pass that marks the coins it selected as spent before it goes on.
FinishPassMarksSpent(W, rk, vecSend, nValue, nFeeRet, s, vout) ==
    FinishPassAnyFee([W EXCEPT !.mapWallet =
                         [h \in DOMAIN @ |->
                            IF \E c \in s.setCoinsRet : c[1] = h
                            THEN MarkSpent(@[h], 1) ELSE @[h]]],
                     rk, vecSend, nValue, nFeeRet, s, vout)

\* Lines 842-872 of one pass of the loop: the inputs, the signatures, the size
\* and the fee test, for the coins s and the outputs vout.
FinishPass(W, rk, vecSend, nValue, nFeeRet, s, vout) ==
    LET vin == CoinSeq(s.setCoinsRet)
        wtxNew == [hash |-> NullHash, vin |-> vin, vout |-> vout, fFromMe |-> TRUE,
                   vfSpent |-> [i \in DOMAIN vout |-> FALSE], hashBlock |-> 0,
                   nIndex |-> -1, vMerkleBranch |-> 0, coinbase |-> FALSE,
                   vtxPrev |-> SupportingOf(W.mapWallet, vin), nTimeReceived |-> 0]
        nBytes == GetSerializeSize(wtxNew)
        dPriority == SumSeq([i \in DOMAIN vin |->
                        W.mapWallet[vin[i][1]].vout[vin[i][2]].nValue
                            * getDepthInMainChain(vin[i][1])])
        nPayFee == args.nTransactionFee * (1 + nBytes \div KiloByte)
        nMinFee == GetMinFee(wtxNew, dPriority > FreePriority * nBytes)
    IN  IF W.threw \/ fLocked \/ nBytes >= MaxTxBytes
        THEN {CreateFailed(W, rk, nFeeRet)}
        ELSE IF nFeeRet < Max2(nPayFee, nMinFee)
             THEN FeeLoop(W, rk, vecSend, nValue, Max2(nPayFee, nMinFee))
             ELSE {[ret |-> TRUE, wtxNew |-> wtxNew, nFeeRet |-> nFeeRet,
                    W |-> W, rk |-> rk]}

\* A pass that takes the change before the fee.
ChangePassChangeBeforeFee(W, rk, vecSend, nValue, nFeeRet, s) ==
    LET nChange == s.nValueRet - nValue
        pays == [i \in DOMAIN vecSend |->
                    [nValue |-> vecSend[i].nValue, mine |-> vecSend[i].mine,
                     key |-> vecSend[i].key]]
    IN  UNION {
          UNION {FinishPass(g.W, g.rk, vecSend, nValue, nFeeRet, s, vout) :
                   vout \in IF nChange > 0 /\ ~g.W.threw
                            THEN {InsertAt(pays, pos,
                                           [nValue |-> nChange, mine |-> TRUE,
                                            key |-> g.rk.vchPubKey]) :
                                    pos \in DOMAIN pays}
                            ELSE {pays}} :
          g \in {IF nChange > 0 THEN GetReservedKey(W, rk)
                 ELSE ReserveReturnKey(W, rk)}}

\* A pass that raises the fee by the dust and leaves the change as it was.
ChangePassKeepsDust(W, rk, vecSend, nValue, nFeeRet, s) ==
    LET nChange == s.nValueRet - nValue - nFeeRet
        nMoveToFee == IF nFeeRet < MIN_TX_FEE /\ nChange > 0 /\ nChange < CENT
                      THEN Min2(nChange, MIN_TX_FEE - nFeeRet) ELSE 0
        pays == [i \in DOMAIN vecSend |->
                    [nValue |-> vecSend[i].nValue, mine |-> vecSend[i].mine,
                     key |-> vecSend[i].key]]
    IN  UNION {
          UNION {FinishPass(g.W, g.rk, vecSend, nValue, nFeeRet + nMoveToFee, s, vout) :
                   vout \in IF nChange > 0 /\ ~g.W.threw
                            THEN {InsertAt(pays, pos,
                                           [nValue |-> nChange, mine |-> TRUE,
                                            key |-> g.rk.vchPubKey]) :
                                    pos \in DOMAIN pays}
                            ELSE {pays}} :
          g \in {IF nChange > 0 THEN GetReservedKey(W, rk)
                 ELSE ReserveReturnKey(W, rk)}}

\* Lines 805-840 of one pass: the change, its key and its place among the
\* outputs, for the coins s.
ChangePass(W, rk, vecSend, nValue, nFeeRet, s) ==
    LET nChange0 == s.nValueRet - nValue - nFeeRet
        nMoveToFee == IF nFeeRet < MIN_TX_FEE /\ nChange0 > 0 /\ nChange0 < CENT
                      THEN Min2(nChange0, MIN_TX_FEE - nFeeRet) ELSE 0
        nChange == nChange0 - nMoveToFee
        pays == [i \in DOMAIN vecSend |->
                    [nValue |-> vecSend[i].nValue, mine |-> vecSend[i].mine,
                     key |-> vecSend[i].key]]
    IN  UNION {
          UNION {FinishPass(g.W, g.rk, vecSend, nValue, nFeeRet + nMoveToFee, s, vout) :
                   vout \in IF nChange > 0 /\ ~g.W.threw
                            THEN {InsertAt(pays, pos,
                                           [nValue |-> nChange, mine |-> TRUE,
                                            key |-> g.rk.vchPubKey]) :
                                    pos \in DOMAIN pays}
                            ELSE {pays}} :
          g \in {IF nChange > 0 THEN GetReservedKey(W, rk)
                 ELSE ReserveReturnKey(W, rk)}}

\* Lines 782-873: the loop, entered with the working fee nFeeRet, which is
\* noted in feeLog (history) at the start of each pass.
FeeLoop(W, rk, vecSend, nValue, nFeeRet) ==
    UNION {IF s.fOk
           THEN ChangePass([W EXCEPT !.feeLog = Append(@, nFeeRet)], rk, vecSend,
                           nValue, nFeeRet, s)
           ELSE {CreateFailed([W EXCEPT !.feeLog = Append(@, nFeeRet)], rk,
                              nFeeRet)} :
             s \in SelectCoins(nValue + nFeeRet)}

\* Wallet::CreateTransaction(vecSend, wtxNew, reservekey, nFeeRet): every
\* outcome of the call, over the outcomes of coin selection and GetRandInt.
CreateTransaction(W, rk, vecSend) ==
    IF AmountsRefused(vecSend) THEN {CreateFailed(W, rk, 0)}
    ELSE FeeLoop(W, rk, vecSend,
                 SumSeq([i \in DOMAIN vecSend |-> vecSend[i].nValue]),
                 args.nTransactionFee)

\* Lines 907-914 from input i on: each coin wtxNew spends is marked spent,
\* written and notified.  mapWallet[hash] of a hash the wallet does not hold
\* makes an empty record, on which MarkSpent throws.
RECURSIVE MarkInputsSpent(_, _, _)
MarkInputsSpent(W, vin, i) ==
    IF i > Len(vin) \/ W.threw THEN W
    ELSE LET h == vin[i][1]
             n == vin[i][2]
         IN  IF h \notin DOMAIN W.mapWallet THEN [W EXCEPT !.threw = TRUE]
             ELSE Then(WriteToDisk([W EXCEPT !.mapWallet[h] = MarkSpent(@, n)], h),
                       LAMBDA W1 : MarkInputsSpent(
                           [W1 EXCEPT !.vWalletUpdated = Append(@, h)], vin, i + 1))

\* CommitTransaction with the coins marked spent only when AddToWallet has
\* recorded the transaction.
CommitTransactionMarksIfAdded(W, rk, wtxNew, fAccept) ==
    Then(ReserveKeepKey(W, rk), LAMBDA k :
    Then(AddToWallet(k.W, wtxNew), LAMBDA a :
        IF a.W.threw THEN [W |-> a.W, rk |-> k.rk, ret |-> FALSE]
        ELSE Then(IF a.ret THEN MarkInputsSpent(a.W, wtxNew.vin, 1) ELSE a.W, LAMBDA W2 :
                 [W |-> [W2 EXCEPT !.mapRequestCount = Put(@, wtxNew.hash, 0),
                                   !.accepted = IF fAccept /\ ~W2.threw
                                                THEN @ \cup {wtxNew.hash} ELSE @],
                  rk |-> k.rk, ret |-> fAccept /\ ~W2.threw])))

\* CommitTransaction that, when acceptTransaction refuses the transaction,
\* keeps the key and gives up the record and the marks.
CommitTransactionUndoesOnRefusal(W, rk, wtxNew, fAccept) ==
    Then(ReserveKeepKey(W, rk), LAMBDA k :
    Then(AddToWallet(k.W, wtxNew), LAMBDA a :
        IF a.W.threw THEN [W |-> a.W, rk |-> k.rk, ret |-> FALSE]
        ELSE Then(MarkInputsSpent(a.W, wtxNew.vin, 1), LAMBDA W2 :
                 IF W2.threw THEN [W |-> W2, rk |-> k.rk, ret |-> FALSE]
                 ELSE IF ~fAccept THEN [W |-> k.W, rk |-> k.rk, ret |-> FALSE]
                 ELSE [W |-> [W2 EXCEPT !.mapRequestCount = Put(@, wtxNew.hash, 0),
                                        !.accepted = @ \cup {wtxNew.hash}],
                       rk |-> k.rk, ret |-> TRUE])))

\* Wallet::CommitTransaction(wtxNew, reservekey) on wallet state W, fAccept being
\* what acceptTransaction answers: the state after the call and the value
\* returned (none, shown as FALSE, when the call threw).
CommitTransaction(W, rk, wtxNew, fAccept) ==
    Then(ReserveKeepKey(W, rk), LAMBDA k :
    Then(AddToWallet(k.W, wtxNew), LAMBDA a :
        IF a.W.threw THEN [W |-> a.W, rk |-> k.rk, ret |-> FALSE]
        ELSE Then(MarkInputsSpent(a.W, wtxNew.vin, 1), LAMBDA W2 :
                 IF W2.threw THEN [W |-> W2, rk |-> k.rk, ret |-> FALSE]
                 ELSE [W |-> [W2 EXCEPT !.mapRequestCount = Put(@, wtxNew.hash, 0),
                                        !.accepted = IF fAccept
                                                     THEN @ \cup {wtxNew.hash} ELSE @],
                       rk |-> k.rk, ret |-> fAccept])))

\* The hashes of the wallet's records and of the transactions the callers make.
AllTx == 1..(NumTx + NumCallers)

\* The wallet before any send: NumTx final records received from outside, of
\* values in increasing order, record 1 at depth depth1 and the others at depth 6,
\* the first key of the wallet its default key.
InitSend ==
    \E val \in {v \in [TxIds -> 1..MaxValue] :
                   \A h \in TxIds : h + 1 \in TxIds => v[h] <= v[h + 1]},
       depth1 \in {6} :
        /\ mapWallet = [h \in TxIds |-> TheirTx(h, val[h])]
        /\ blockChain = [final    |-> [h \in AllTx |-> TRUE],
                         depth    |-> [h \in AllTx |->
                                          IF h \notin TxIds THEN 0
                                          ELSE IF h = 1 THEN depth1 ELSE 6],
                         maturity |-> [h \in AllTx |-> 0]]
        /\ sel = NoSel /\ conf = NoConf
        /\ setKeyPool = {} /\ poolDb = << >> /\ nKeys = 1 /\ fLocked = FALSE
        /\ args \in [fFileBacked : {TRUE}, keypool : {0},
                     nTransactionFee : {0}]
        /\ resv = [c \in Callers |-> NoReservation]
        /\ kpLog = <<>> /\ kpThrew = FALSE
        /\ walletDb = mapWallet /\ vWalletUpdated = <<>> /\ vchDefaultKey = 1
        /\ mapAddressBook = << >> /\ mapRequestCount = << >> /\ accepted = {}
        /\ send = [c \in Callers |-> NoSend]
        /\ last = NoCall /\ crypt = NoCrypt

\* The two send flows whose interleavings are followed.
Senders == {c \in Callers : c <= 2}

\* The durable writes a step of a send may see succeed: none, the first only,
\* or all of them.
SendBudgets == {0, 1, 2 * NumTx + 4}

\* The same for CreateTransaction, whose one durable write is the key the
\* pool is topped up with.
CreateBudgets == {0, 2 * NumTx + 4}

\* The hash of the transaction caller c has made: that of another caller's
\* transaction when the two are the same transaction.
HashFor(c, wtx) ==
    IF \E d \in Callers : d # c /\ send[d].wtxNew.hash # NullHash
                          /\ send[d].wtxNew.vin = wtx.vin /\ send[d].wtxNew.vout = wtx.vout
    THEN send[CHOOSE d \in Callers : d # c /\ send[d].wtxNew.hash # NullHash
                          /\ send[d].wtxNew.vin = wtx.vin
                          /\ send[d].wtxNew.vout = wtx.vout].wtxNew.hash
    ELSE NumTx + c

\* The payees of a send: somebody else, or the wallet's own default address.
Payees == {[mine |-> FALSE, key |-> NoKey], [mine |-> TRUE, key |-> vchDefaultKey]}

\* Caller c starts a send: CreateTransaction(scriptPubKey, nValue, ...).  The
\* callers being alike, the one of the lower number is taken to start first.
CallCreateTransaction(c) ==
    /\ send[c].pc = "idle"
    /\ \A d \in Senders : d < c => send[d].pc # "idle"
    /\ \E nValue \in 1..MaxSend, payee \in Payees, nWrites \in CreateBudgets :
        \E r \in CreateTransaction(WalletNow(nWrites), resv[c],
                     <<[nValue |-> nValue, mine |-> payee.mine, key |-> payee.key]>>) :
            /\ r.W.nKeys <= MaxKeys
            /\ SetWallet(r.W)
            /\ resv' = [resv EXCEPT ![c] = r.rk]
            /\ send' = [send EXCEPT ![c] =
                          [pc |-> IF r.W.threw THEN "threw"
                                  ELSE IF r.ret THEN "created" ELSE "failed",
                           wtxNew |-> IF r.ret
                                      THEN [r.wtxNew EXCEPT !.hash = HashFor(c, r.wtxNew)]
                                      ELSE NoTx,
                           nFeeRet |-> r.nFeeRet, ret |-> r.ret]]
            /\ UNCHANGED <<blockChain, crypt, sel, conf, fLocked, args, last>>

\* Whether acceptTransaction may take wtx: no transaction it has taken spends
\* one of wtx's coins.
Acceptable(wtx) ==
    \A h \in accepted \ {wtx.hash} :
        h \in DOMAIN mapWallet => Range(mapWallet[h].vin) \cap Range(wtx.vin) = {}

\* Caller c goes on to CommitTransaction(wtxNew, reservekey).
CallCommitTransaction(c) ==
    /\ send[c].pc = "created"
    /\ \E fAccept \in {FALSE} \cup {a \in {TRUE} : Acceptable(send[c].wtxNew)},
          nWrites \in SendBudgets :
        \E r \in {CommitTransaction(WalletNow(nWrites), resv[c], send[c].wtxNew, fAccept)} :
            /\ r.W.nKeys <= MaxKeys
            /\ SetWallet(r.W)
            /\ resv' = [resv EXCEPT ![c] = r.rk]
            /\ send' = [send EXCEPT ![c].pc = IF r.W.threw THEN "threw" ELSE "committed",
                                    ![c].ret = r.ret]
            /\ UNCHANGED <<blockChain, crypt, sel, conf, fLocked, args, last>>

\* Caller c leaves SendMoney without committing (creation failed, or the fee was
\* declined): the CReserveKey goes out of scope and returns its key.
AbandonSend(c) ==
    /\ send[c].pc \in {"created", "failed", "threw"}
    /\ \E r \in {ReserveReturnKey(WalletNow(0), resv[c])} :
        /\ SetWallet(r.W)
        /\ resv' = [resv EXCEPT ![c] = r.rk]
    /\ send' = [send EXCEPT ![c].pc = "left"]
    /\ UNCHANGED <<blockChain, crypt, sel, conf, fLocked, args, last>>

NextSend ==
    \/ \E c \in Senders : CallCreateTransaction(c)
    \/ \E c \in Senders : CallCommitTransaction(c)
    \/ \E c \in Senders : AbandonSend(c)

SpecSend == InitSend /\ [][NextSend]_vars

\* ------------------------------------------- CreateTransaction as a function
\* The wallet at a call of CreateTransaction: NumTx final records received
\* from outside, the last nPending of them not yet in a block and the others
\* all at the same depth, an empty key pool, locked or not.  A locked wallet
\* tops no pool up and signs nothing, whatever -keypool and the depths are: it
\* is taken with -keypool=0 and depth 6.
InitCreate ==
    \E val \in {v \in [TxIds -> 1..MaxValue] :
                   \A h \in TxIds : h + 1 \in TxIds => v[h] <= v[h + 1]},
       depth \in {1, 6}, nPending \in 0..(NumTx - 1) :
        /\ mapWallet = [h \in TxIds |-> TheirTx(h, val[h])]
        /\ blockChain = [final    |-> [h \in TxIds |-> TRUE],
                         depth    |-> [h \in TxIds |->
                                         IF h > NumTx - nPending THEN 0 ELSE depth],
                         maturity |-> [h \in TxIds |-> 0]]
        /\ sel = NoSel /\ conf = NoConf
        /\ setKeyPool = {} /\ poolDb = << >> /\ nKeys = 1
        /\ fLocked \in BOOLEAN
        /\ args \in [fFileBacked : {TRUE}, keypool : 0..MaxPoolTarget,
                     nTransactionFee : {0, MIN_TX_FEE}]
        /\ fLocked => (args.keypool = 0 /\ depth = 6)
        /\ resv = [c \in Callers |-> NoReservation]
        /\ kpLog = <<>> /\ kpThrew = FALSE
        /\ walletDb = mapWallet /\ vWalletUpdated = <<>> /\ vchDefaultKey = 1
        /\ mapAddressBook = << >> /\ mapRequestCount = << >> /\ accepted = {}
        /\ send = [c \in Callers |-> NoSend]
        /\ last = NoCall /\ crypt = OneKeyCrypt

\* The vecSend arguments: no payment, one payment or two, to others, of
\* amounts from -1 to MaxSend.
Payments == [nValue : (-1)..MaxSend, mine : {FALSE}, key : {NoKey}]
SendLists ==
    {<<>>} \cup {<<p>> : p \in Payments} \cup {<<p, q>> : p \in Payments, q \in Payments}

\* CreateTransaction(vecSend, wtxNew, reservekey, nFeeRet) with a fresh
\* CReserveKey, which caller 1 holds afterwards.
CallCreateTransactionOnce ==
    /\ last.op = "none"
    /\ \E vecSend \in SendLists, nWrites \in CreateBudgets :
        \E r \in CreateTransaction(WalletNow(nWrites), NoReservation, vecSend) :
            /\ r.W.nKeys <= MaxKeys
            /\ SetWallet(r.W)
            /\ resv' = [resv EXCEPT ![1] = r.rk]
            /\ last' = [op |-> "CreateTransaction", vecSend |-> vecSend,
                        ret |-> r.ret /\ ~r.W.threw, threw |-> r.W.threw,
                        wtxNew |-> r.wtxNew, nFeeRet |-> r.nFeeRet,
                        feeLog |-> r.W.feeLog]
            /\ UNCHANGED <<blockChain, crypt, sel, conf, fLocked, args, send>>

NextCreate == CallCreateTransactionOnce

SpecCreate == InitCreate /\ [][NextCreate]_vars

\* C18: CreateTransaction returns failure whenever the output list is empty,
\* some amount is negative or the amounts sum to less than zero.
C18_BadAmountsRefused ==
    (/\ last.op = "CreateTransaction"
     /\ \/ last.vecSend = <<>>
        \/ \E i \in DOMAIN last.vecSend : last.vecSend[i].nValue < 0
        \/ SumSeq([i \in DOMAIN last.vecSend |-> last.vecSend[i].nValue]) < 0)
        => ~last.ret

\* The values a successful CreateTransaction has put together: the coins
\* spent, the payments asked for and the outputs made.
CreatedIn ==
    SumSeq([i \in DOMAIN last.wtxNew.vin |->
               mapWallet[last.wtxNew.vin[i][1]].vout[last.wtxNew.vin[i][2]].nValue])
CreatedPay == SumSeq([i \in DOMAIN last.vecSend |-> last.vecSend[i].nValue])
CreatedOut == SumSeq([i \in DOMAIN last.wtxNew.vout |-> last.wtxNew.vout[i].nValue])
Created == last.op = "CreateTransaction" /\ last.ret

\* C26: whenever CreateTransaction succeeds, the values of the selected coins
\* sum to the payments plus the change (0 if none) plus the fee returned, and
\* the change is not negative.
C26_ValueConserved ==
    Created =>
        /\ CreatedIn = CreatedOut + last.nFeeRet
        /\ CreatedOut - CreatedPay >= 0
        /\ Len(last.wtxNew.vout) \in {Len(last.vecSend), Len(last.vecSend) + 1}
        /\ Len(last.wtxNew.vout) = Len(last.vecSend)
              => CreatedOut = CreatedPay

\* A transaction with a change output and a fee has been made.
C26_Witness ==
    /\ Created
    /\ Len(last.wtxNew.vout) = Len(last.vecSend) + 1
    /\ last.nFeeRet > 0
    /\ CreatedPay > 0

\* What the fee test of lines 859-866 asks of the transaction made.
CreatedBytes == GetSerializeSize(last.wtxNew)
CreatedPriority ==
    SumSeq([i \in DOMAIN last.wtxNew.vin |->
              mapWallet[last.wtxNew.vin[i][1]].vout[last.wtxNew.vin[i][2]].nValue
                  * getDepthInMainChain(last.wtxNew.vin[i][1])])
CreatedFeeAsked ==
    Max2(args.nTransactionFee * (1 + CreatedBytes \div KiloByte),
         GetMinFee(last.wtxNew, CreatedPriority > FreePriority * CreatedBytes))

\* C27: the fee loop of CreateTransaction ends; the working fee a pass is
\* entered with is larger than that of the pass before it, the fee returned is
\* not below the one the last pass was entered with, and a call that succeeds
\* returns a transaction under the size limit whose fee is at least the larger
\* of the size-based fee and the minimum fee of that transaction.
C27_FeeLoopRaisesFee ==
    (last.op = "CreateTransaction" /\ ~last.threw) =>
        /\ \A i \in DOMAIN last.feeLog :
              /\ i > 1 => last.feeLog[i - 1] < last.feeLog[i]
              /\ last.feeLog[i] <= last.nFeeRet
        /\ last.feeLog # <<>> => last.feeLog[1] = args.nTransactionFee
        /\ last.ret => /\ last.feeLog # <<>>
                       /\ CreatedBytes < MaxTxBytes
                       /\ last.nFeeRet >= CreatedFeeAsked

C27_Witness ==
    /\ Created /\ Len(last.feeLog) >= 2
    /\ last.nFeeRet = CreatedFeeAsked /\ last.nFeeRet > args.nTransactionFee

\* The outputs of the transaction made that are not payments of vecSend.
CreatedChange == {i \in DOMAIN last.wtxNew.vout : last.wtxNew.vout[i].mine}

\* C28: after a call of CreateTransaction that succeeds, the CReserveKey holds
\* a key pool index exactly when the transaction has a change output; every
\* index of the pool that is not available is the one it holds, so an index
\* reserved in an earlier pass was given back and at most one was reserved;
\* the change output pays to the key held.
C28_ReservedIffChange ==
    Created =>
        /\ resv[1].nIndex # NoIndex <=> CreatedChange # {}
        /\ resv[1].nIndex \notin setKeyPool
        /\ (DOMAIN poolDb) \ setKeyPool \subseteq {resv[1].nIndex} \ {NoIndex}
        /\ \A i \in CreatedChange :
              /\ last.wtxNew.vout[i].key = resv[1].vchPubKey
              /\ resv[1].vchPubKey # NoKey

\* A call that reserved an index in one pass and ended without change.
C28_Witness ==
    /\ Created /\ CreatedChange = {} /\ Len(last.feeLog) >= 2
    /\ args.keypool = 0 /\ setKeyPool # {} /\ resv[1].nIndex = NoIndex

\* The outcomes of CreateTransaction(vecSend) in the present state, with
\* nWrites durable writes succeeding, that succeed with a change output.
WithChange(vecSend, nWrites) ==
    {r \in CreateTransaction(WalletNow(nWrites), NoReservation, vecSend) :
        r.ret /\ ~r.W.threw /\ Len(r.wtxNew.vout) > Len(vecSend)}

\* vout without its element at position p.
Without(vout, p) == SubSeq(vout, 1, p - 1) \o SubSeq(vout, p + 1, Len(vout))

\* C29: a call of CreateTransaction that leaves change adds exactly one change
\* output and keeps the payments in their order with their amounts, and every
\* position of the output list, from the first to the last, is the place of
\* the change output for some random draw.
C29_ChangeAtAnyPosition ==
    last.op = "none" =>
        \A vecSend \in SendLists, nWrites \in CreateBudgets :
            /\ \A r \in WithChange(vecSend, nWrites) :
                  /\ Len(r.wtxNew.vout) = Len(vecSend) + 1
                  /\ \E p \in DOMAIN r.wtxNew.vout :
                        /\ r.wtxNew.vout[p].mine /\ r.wtxNew.vout[p].nValue > 0
                        /\ Without(r.wtxNew.vout, p) = vecSend
            /\ WithChange(vecSend, nWrites) # {} =>
                  \A p \in 1..(Len(vecSend) + 1) :
                      \E r \in WithChange(vecSend, nWrites) : r.wtxNew.vout[p].mine

\* The fee the last pass of the call was entered with, and the change that
\* pass found before the dust rule.
CreatedFeeIn == last.feeLog[Len(last.feeLog)]
CreatedChangeIn == CreatedIn - CreatedPay - CreatedFeeIn

C31_CreateLeavesRecords ==
    [][last'.op = "CreateTransaction" =>
          /\ mapWallet' = mapWallet
          /\ walletDb' = walletDb
          /\ vWalletUpdated' = vWalletUpdated
          /\ mapRequestCount' = mapRequestCount
          /\ accepted' = accepted]_vars

\* A call that succeeded after it wrote a key of the pool.
C31_Witness ==
    /\ Created /\ CreatedChange # {} /\ poolDb # << >>
    /\ walletDb = mapWallet /\ accepted = {}
    /\ \A i \in DOMAIN last.wtxNew.vin :
          ~IsSpent(mapWallet[last.wtxNew.vin[i][1]], last.wtxNew.vin[i][2])

\* ------------------------------------------------------- claims on sending
\* The send flows whose CommitTransaction has run to its return.
Committed == {c \in Senders : send[c].pc = "committed"}

\* C3: two send flows on one wallet, each a CreateTransaction followed later by
\* a CommitTransaction, never commit two transactions that spend a coin in
\* common.
C3_CommittedInputsDisjoint ==
    \A c \in Committed : \A d \in Committed :
        send[c].wtxNew.hash # send[d].wtxNew.hash
            => Range(send[c].wtxNew.vin) \cap Range(send[d].wtxNew.vin) = {}

\* C4: once CommitTransaction of a transaction has returned, true or false,
\* every wallet coin the transaction spends is reported spent by the wallet and
\* is none of the outputs coin selection gathers from its record; the block
\* chain is the same throughout.
C4_CommittedInputsSpent ==
    \A c \in Committed : \A txin \in Range(send[c].wtxNew.vin) :
        /\ txin[1] \in DOMAIN mapWallet
        /\ IsSpent(mapWallet[txin[1]], txin[2])
        /\ \A k \in DOMAIN CoinsOf(mapWallet[txin[1]], 1) :
               CoinsOf(mapWallet[txin[1]], 1)[k].coin # txin

\* C19: a CommitTransaction in which acceptTransaction refuses the transaction
\* returns failure and rolls nothing back: the record is in mapWallet, its
\* input coins are marked spent, the reservation is kept (its pool record is
\* erased and its index is not put back in setKeyPool) and the request count of
\* the transaction is 0.
C19_RefusedCommitKeepsState ==
    [][\A c \in Senders :
        (send[c].pc = "created" /\ send'[c].pc = "committed" /\ ~send'[c].ret) =>
            /\ send[c].wtxNew.hash \in DOMAIN mapWallet'
            /\ mapWallet'[send[c].wtxNew.hash].vin = send[c].wtxNew.vin
            /\ mapWallet'[send[c].wtxNew.hash].vout = send[c].wtxNew.vout
            /\ \A txin \in Range(send[c].wtxNew.vin) :
                   IsSpent(mapWallet'[txin[1]], txin[2])
            /\ resv'[c] = NoReservation
            /\ resv[c].nIndex # NoIndex =>
                   /\ resv[c].nIndex \notin DOMAIN poolDb'
                   /\ resv[c].nIndex \in setKeyPool' => resv[c].nIndex \in setKeyPool
            /\ send[c].wtxNew.hash \in DOMAIN mapRequestCount'
            /\ mapRequestCount'[send[c].wtxNew.hash] = 0]_vars

\* A refused commit of a transaction with a change output, whose record has
\* been written.
C19_Witness ==
    \E c \in Committed :
        /\ ~send[c].ret
        /\ Len(send[c].wtxNew.vout) > 1
        /\ send[c].wtxNew.hash \in DOMAIN walletDb
        /\ send[c].wtxNew.hash \in DOMAIN mapRequestCount

\* A commit that returned false with the record's write refused, after spending
\* a coin that was a candidate of coin selection before the send.
C4_Witness ==
    \E c \in Committed :
        /\ ~send[c].ret
        /\ send[c].wtxNew.hash \notin DOMAIN walletDb
        /\ send[c].wtxNew.vin # <<>>
        /\ \A txin \in Range(send[c].wtxNew.vin) :
               /\ IsMine(mapWallet[txin[1]].vout[txin[2]])
               /\ ScansRecord(mapWallet[txin[1]], 1, 6)

\* ------------------------------------------------------- unlocking the wallet
\* What the crypter and the key store answer on one master key record for the
\* passphrase given: SetKeyFromPassphrase fails, Decrypt fails, Decrypt yields
\* a key that CCryptoKeyStore::Unlock rejects, or the key unlocks the store.
\* A record the loop does not come to is not asked about.
CrypterAnswers == {"derive_fails", "decrypt_fails", "wrong_key", "unlocks"}

\* The answers that can come for a passphrase.  The record made with the
\* passphrase unlocks the store.  On any other record the derivation may fail
\* (the record's own parameters), the decryption may fail (the padding of the
\* plaintext is wrong under a wrong key) or yield a key the store rejects.
\* The loop goes on to the next record only after a rejected key.
AnswersFor(keys, pass) ==
    {a \in [DOMAIN keys -> CrypterAnswers \cup {"not_asked"}] :
        \A i \in DOMAIN keys :
            /\ (a[i] = "not_asked") <=> (\E j \in 1..(i - 1) : a[j] # "wrong_key")
            /\ (a[i] = "unlocks") => (keys[i].under = pass)
            /\ (keys[i].under = pass) => (a[i] \in {"unlocks", "not_asked"})}

\* The results of n calls made one after the other, each made only if the
\* one before it succeeded.
Results(n) == {[i \in 1..n |-> i <= k] : k \in 0..n}

\* A loop that takes any key that decrypts for the wallet's key.
RECURSIVE UnlockFromAnyKey(_, _)
UnlockFromAnyKey(answers, i) ==
    IF i > Len(answers) THEN FALSE
    ELSE IF answers[i] \in {"derive_fails", "decrypt_fails"} THEN FALSE
    ELSE TRUE

\* The loop of Unlock over mapMasterKeys from record i on.
RECURSIVE UnlockFrom(_, _)
UnlockFrom(answers, i) ==
    IF i > Len(answers) THEN FALSE
    ELSE IF answers[i] = "derive_fails" THEN FALSE
    ELSE IF answers[i] = "decrypt_fails" THEN FALSE
    ELSE IF answers[i] = "unlocks" THEN TRUE
    ELSE UnlockFrom(answers, i + 1)

\* Wallet::Unlock: false on a wallet that is not locked, else the loop.
Unlock(locked, answers) ==
    IF ~locked THEN FALSE ELSE UnlockFrom(answers, 1)

\* An encrypted wallet with one to MaxMasterKeys master key records, locked or
\* unlocked.
InitUnlock ==
    /\ mapWallet = << >>
    /\ blockChain = [final |-> << >>, depth |-> << >>, maturity |-> << >>]
    /\ sel = NoSel /\ conf = NoConf
    /\ setKeyPool = {} /\ poolDb = << >> /\ nKeys = 1
    /\ fLocked \in BOOLEAN
    /\ args = [fFileBacked |-> TRUE, keypool |-> 0]
    /\ resv = [c \in Callers |-> NoReservation]
    /\ kpLog = <<>> /\ kpThrew = FALSE
    /\ BookUnused
    /\ \E n \in 1..MaxMasterKeys :
         \E under \in [1..n -> Passphrases] :
            crypt = KeyStore([i \in 1..n |-> MasterKey(under[i])], TRUE)

UnlockFrame ==
    UNCHANGED <<mapWallet, blockChain, crypt, sel, conf, setKeyPool, poolDb,
                nKeys, args, resv, kpLog, kpThrew, walletDb, vWalletUpdated,
                vchDefaultKey, mapAddressBook, mapRequestCount, accepted, send>>

CallUnlock ==
    /\ ~crypt.fExited
    /\ \E strWalletPassphrase \in Passphrases :
        \E answers \in AnswersFor(crypt.mapMasterKeys, strWalletPassphrase) :
            \E r \in {Unlock(fLocked, answers)} :
                /\ fLocked' = (fLocked /\ ~r)
                /\ last' = [op |-> "Unlock",
                            strWalletPassphrase |-> strWalletPassphrase,
                            answers |-> answers, fWasLocked |-> fLocked,
                            ret |-> r]
                /\ UnlockFrame

\* Lock() discards the decrypted master key.
CallLock ==
    /\ ~crypt.fExited
    /\ crypt.fUseCrypto /\ ~fLocked
    /\ fLocked' = TRUE
    /\ last' = [op |-> "Lock"]
    /\ UnlockFrame

NextUnlock == CallUnlock \/ CallLock
SpecUnlock == InitUnlock /\ [][NextUnlock]_vars

\* C20: Unlock on a locked wallet succeeds whenever the passphrase is valid for
\* at least one of the stored master key records, whatever their order: a
\* derivation or decryption failure on an earlier record does not end the
\* search.
C20_UnlockFindsValidRecord ==
    (/\ last.op = "Unlock"
     /\ last.fWasLocked
     /\ \E i \in DOMAIN crypt.mapMasterKeys :
            crypt.mapMasterKeys[i].under = last.strWalletPassphrase)
        => (last.ret /\ ~fLocked)

\* The passphrase of the last Unlock call is valid for no master key record.
ValidForNone ==
    \A i \in DOMAIN crypt.mapMasterKeys :
        crypt.mapMasterKeys[i].under # last.strWalletPassphrase

\* C22: Unlock with a passphrase that is valid for none of the stored master
\* key records returns false and leaves the wallet locked.
C22_WrongPassphraseStaysLocked ==
    (last.op = "Unlock" /\ last.fWasLocked /\ ValidForNone)
        => (~last.ret /\ fLocked)

\* Such a call that tried every record: each decrypted to a key the store
\* rejected.
C22_Witness ==
    /\ last.op = "Unlock" /\ last.fWasLocked /\ ValidForNone
    /\ Len(last.answers) > 1
    /\ \A i \in DOMAIN last.answers : last.answers[i] = "wrong_key"
    /\ ~last.ret /\ fLocked

\* ------------------------------------------------- encrypting the wallet
\* Lock(): an encrypted key store drops its decrypted master key; a store
\* whose keys are not encrypted has no lock state to change.
Lock(K, locked) == IF K.fUseCrypto THEN TRUE ELSE locked

\* EncryptKeys(vMasterKey): fails on a store that is already encrypted, and
\* otherwise when a key fails to encrypt (fKeysEncrypted is FALSE).
EncryptKeys(K, fKeysEncrypted) == ~K.fUseCrypto /\ fKeysEncrypted

\* A preparation that does not look at IsCrypted().
EncryptWalletPrepareAgain(K, c, strWalletPassphrase, fDerived, fEncrypted) ==
    IF ~fDerived \/ ~fEncrypted THEN [K |-> K, ret |-> "false"]
    ELSE [K |-> [K EXCEPT !.kMasterKey[c] = MasterKey(strWalletPassphrase)],
          ret |-> "prepared"]

\* EncryptWallet before its critical section: the test of IsCrypted(), then
\* the new master key record kMasterKey made from the passphrase.  fDerived and
\* fEncrypted are the results of the last SetKeyFromPassphrase and of Encrypt.
EncryptWalletPrepare(K, c, strWalletPassphrase, fDerived, fEncrypted) ==
    IF K.fUseCrypto THEN [K |-> K, ret |-> "false"]
    ELSE IF ~fDerived THEN [K |-> K, ret |-> "false"]
    ELSE IF ~fEncrypted THEN [K |-> K, ret |-> "false"]
    ELSE [K |-> [K EXCEPT !.kMasterKey[c] = MasterKey(strWalletPassphrase)],
          ret |-> "prepared"]

\* A critical section that returns false when the keys fail to encrypt or the
\* commit fails, with the record stored and the process running.
EncryptWalletStoreReturns(K, locked, fFileBacked, c, fKeysEncrypted, fCommitted) ==
    Then([K EXCEPT !.mapMasterKeys = Append(@, K.kMasterKey[c]),
                   !.nMasterKeyMaxID = @ + 1,
                   !.kMasterKey[c] = NoMasterKey],
         LAMBDA K1 :
            IF ~EncryptKeys(K1, fKeysEncrypted)
            THEN [K |-> K1, locked |-> locked, ret |-> "false"]
            ELSE IF fFileBacked /\ ~fCommitted
            THEN [K |-> [K1 EXCEPT !.fUseCrypto = TRUE], locked |-> locked,
                  ret |-> "false"]
            ELSE Then([K1 EXCEPT !.fUseCrypto = TRUE,
                                 !.dbMasterKeys =
                                     IF fFileBacked
                                     THEN Put(@, K1.nMasterKeyMaxID,
                                              K.kMasterKey[c])
                                     ELSE @],
                      LAMBDA K2 : [K |-> K2, locked |-> Lock(K2, locked),
                                   ret |-> "true"]))

\* The critical section of EncryptWallet: the record is stored in memory and
\* written inside a durable transaction, the keys are encrypted, the
\* transaction is committed and the wallet locked.  exit(1) when the keys fail
\* to encrypt (the transaction is aborted) or the commit fails.
EncryptWalletStore(K, locked, fFileBacked, c, fKeysEncrypted, fCommitted) ==
    Then([K EXCEPT !.mapMasterKeys = Append(@, K.kMasterKey[c]),
                   !.nMasterKeyMaxID = @ + 1,
                   !.kMasterKey[c] = NoMasterKey],
         LAMBDA K1 :
            IF ~EncryptKeys(K1, fKeysEncrypted)
            THEN [K |-> [K1 EXCEPT !.fExited = TRUE], locked |-> locked,
                  ret |-> "exit"]
            ELSE IF fFileBacked /\ ~fCommitted
            THEN [K |-> [K1 EXCEPT !.fUseCrypto = TRUE, !.fExited = TRUE],
                  locked |-> locked, ret |-> "exit"]
            ELSE Then([K1 EXCEPT !.fUseCrypto = TRUE,
                                 !.dbMasterKeys =
                                     IF fFileBacked
                                     THEN Put(@, K1.nMasterKeyMaxID,
                                              K.kMasterKey[c])
                                     ELSE @],
                      LAMBDA K2 : [K |-> K2, locked |-> Lock(K2, locked),
                                   ret |-> "true"]))

\* A change of passphrase that leaves the store unlocked.
ReencryptLeavesUnlocked(K, i, fWasLocked, strNewWalletPassphrase, fNew) ==
    IF ~fNew[1] \/ ~fNew[2]
    THEN [K |-> K, locked |-> FALSE, ret |-> FALSE]
    ELSE [K |-> [K EXCEPT !.mapMasterKeys[i] =
                              MasterKey(strNewWalletPassphrase)],
          locked |-> FALSE, ret |-> TRUE]

\* The rest of ChangeWalletPassphrase once record i has unlocked the store:
\* the record is encrypted again under the new passphrase and written (the
\* result of the write is not looked at), and the wallet is locked again if it
\* was locked.  On a failure of the derivation or the encryption the call
\* returns with the store unlocked.  fNew holds the results of
\* SetKeyFromPassphrase, Encrypt and WriteMasterKey for the new passphrase.
Reencrypt(K, i, fWasLocked, strNewWalletPassphrase, fNew) ==
    IF ~fNew[1] \/ ~fNew[2]
    THEN [K |-> K, locked |-> FALSE, ret |-> FALSE]
    ELSE Then([K EXCEPT !.mapMasterKeys[i] = MasterKey(strNewWalletPassphrase),
                        !.dbMasterKeys =
                            IF fNew[3]
                            THEN Put(@, i, MasterKey(strNewWalletPassphrase))
                            ELSE @],
              LAMBDA K1 : [K |-> K1,
                           locked |-> IF fWasLocked THEN Lock(K1, FALSE)
                                      ELSE FALSE,
                           ret |-> TRUE])

\* The loop of ChangeWalletPassphrase over mapMasterKeys from record i on, the
\* store locked.
RECURSIVE ChangeFrom(_, _, _, _, _, _, _)
ChangeFrom(K, locked, i, fWasLocked, answers, strNewWalletPassphrase, fNew) ==
    IF i > Len(answers) THEN [K |-> K, locked |-> locked, ret |-> FALSE]
    ELSE IF answers[i] = "derive_fails"
         THEN [K |-> K, locked |-> locked, ret |-> FALSE]
    ELSE IF answers[i] = "decrypt_fails"
         THEN [K |-> K, locked |-> locked, ret |-> FALSE]
    ELSE IF answers[i] = "unlocks"
         THEN Reencrypt(K, i, fWasLocked, strNewWalletPassphrase, fNew)
    ELSE ChangeFrom(K, locked, i + 1, fWasLocked, answers,
                    strNewWalletPassphrase, fNew)

\* Wallet::ChangeWalletPassphrase: the lock state is read, the wallet locked,
\* and the records are tried with the old passphrase.
ChangeWalletPassphrase(K, locked, answers, strNewWalletPassphrase, fNew) ==
    ChangeFrom(K, Lock(K, locked), 1, locked, answers, strNewWalletPassphrase,
               fNew)

\* A wallet that was never encrypted, or an encrypted wallet with one to
\* MaxMasterKeys master key records, locked or unlocked.
InitCrypt ==
    /\ mapWallet = << >>
    /\ blockChain = [final |-> << >>, depth |-> << >>, maturity |-> << >>]
    /\ sel = NoSel /\ conf = NoConf
    /\ setKeyPool = {} /\ poolDb = << >> /\ nKeys = 1
    /\ args \in [fFileBacked : BOOLEAN, keypool : {0}]
    /\ resv = [c \in Callers |-> NoReservation]
    /\ kpLog = <<>> /\ kpThrew = FALSE
    /\ BookUnused
    /\ \E n \in 0..MaxMasterKeys :
         \E under \in [1..n -> Passphrases] :
            /\ crypt = KeyStore([i \in 1..n |-> MasterKey(under[i])], n > 0)
            /\ fLocked \in {l \in BOOLEAN : l => n > 0}

\* The calls followed: EncryptWallet by two threads, then one call of
\* ChangeWalletPassphrase, Unlock or Lock on the wallet as it is by then.
OnlyEncrypted == last.op \in {"none", "EncryptWallet", "EncryptWallet: prepared"}

\* Nothing runs once the process has exited.
CallEncryptWallet(c) ==
    /\ ~crypt.fExited /\ OnlyEncrypted
    /\ crypt.kMasterKey[c] = NoMasterKey
    /\ \E strWalletPassphrase \in Passphrases, fNew \in Results(2) :
        \E r \in {EncryptWalletPrepare(crypt, c, strWalletPassphrase,
                                       fNew[1], fNew[2])} :
            /\ crypt' = r.K
            /\ last' = IF r.ret = "prepared"
                       THEN [op |-> "EncryptWallet: prepared", c |-> c,
                             fWasCrypted |-> crypt.fUseCrypto]
                       ELSE [op |-> "EncryptWallet", c |-> c,
                             fWasCrypted |-> crypt.fUseCrypto,
                             ret |-> FALSE, fExited |-> FALSE]
            /\ UNCHANGED fLocked
            /\ UNCHANGED <<mapWallet, blockChain, sel, conf, setKeyPool,
                           poolDb, nKeys, args, resv, kpLog, kpThrew,
                           walletDb, vWalletUpdated, vchDefaultKey,
                           mapAddressBook, mapRequestCount, accepted, send>>

StoreEncryptWallet(c) ==
    /\ ~crypt.fExited /\ OnlyEncrypted
    /\ crypt.kMasterKey[c] # NoMasterKey
    /\ \E fDone \in Results(2) :
        \E r \in {EncryptWalletStore(crypt, fLocked, args.fFileBacked, c,
                                     fDone[1], fDone[2])} :
            /\ crypt' = r.K
            /\ fLocked' = r.locked
            /\ last' = [op |-> "EncryptWallet", c |-> c,
                        fWasCrypted |-> FALSE,
                        ret |-> (r.ret = "true"), fExited |-> (r.ret = "exit"),
                        fKeysEncrypted |-> fDone[1], fCommitted |-> fDone[2]]
            /\ UNCHANGED <<mapWallet, blockChain, sel, conf, setKeyPool,
                           poolDb, nKeys, args, resv, kpLog, kpThrew,
                           walletDb, vWalletUpdated, vchDefaultKey,
                           mapAddressBook, mapRequestCount, accepted, send>>

CallChangeWalletPassphrase ==
    /\ ~crypt.fExited
    /\ \E strOldWalletPassphrase \in Passphrases,
       strNewWalletPassphrase \in Passphrases,
       fNew \in Results(3) :
        \E answers \in AnswersFor(crypt.mapMasterKeys, strOldWalletPassphrase) :
            \E r \in {ChangeWalletPassphrase(crypt, fLocked, answers,
                                             strNewWalletPassphrase,
                                             fNew)} :
                /\ crypt' = r.K
                /\ fLocked' = r.locked
                /\ last' = [op |-> "ChangeWalletPassphrase",
                            strOldWalletPassphrase |-> strOldWalletPassphrase,
                            strNewWalletPassphrase |-> strNewWalletPassphrase,
                            fWasLocked |-> fLocked,
                            fWasCrypted |-> crypt.fUseCrypto,
                            ret |-> r.ret]
                /\ UNCHANGED <<mapWallet, blockChain, sel, conf, setKeyPool,
                               poolDb, nKeys, args, resv, kpLog, kpThrew,
                               walletDb, vWalletUpdated, vchDefaultKey,
                               mapAddressBook, mapRequestCount, accepted,
                               send>>

ThenChangeWalletPassphrase == OnlyEncrypted /\ CallChangeWalletPassphrase
ThenUnlock == OnlyEncrypted /\ CallUnlock
ThenLock == OnlyEncrypted /\ CallLock

NextCrypt ==
    \/ \E c \in Senders : CallEncryptWallet(c)
    \/ \E c \in Senders : StoreEncryptWallet(c)
    \/ ThenChangeWalletPassphrase
    \/ ThenUnlock
    \/ ThenLock
SpecCrypt == InitCrypt /\ [][NextCrypt]_vars

\* C21: EncryptWallet on a wallet that is already encrypted returns failure
\* and changes nothing (master key records, nMasterKeyMaxID, key material,
\* lock state); a successful first EncryptWallet leaves the wallet encrypted and
\* locked with exactly one new master key record.
C21_EncryptOnceOnly ==
    [][/\ (/\ last'.op \in {"EncryptWallet", "EncryptWallet: prepared"}
           /\ last'.fWasCrypted)
          => (/\ last'.op = "EncryptWallet"
              /\ ~last'.ret /\ ~last'.fExited
              /\ crypt' = crypt /\ fLocked' = fLocked)
       /\ (last'.op = "EncryptWallet" /\ last'.ret)
          => (/\ crypt'.fUseCrypto /\ fLocked'
              /\ crypt.mapMasterKeys = <<>>
              /\ Len(crypt'.mapMasterKeys) = 1
              /\ crypt'.nMasterKeyMaxID = crypt.nMasterKeyMaxID + 1)]_vars

\* A first EncryptWallet has succeeded.
C21_Witness ==
    /\ last.op = "EncryptWallet" /\ last.ret
    /\ crypt.fUseCrypto /\ fLocked
    /\ Len(crypt.mapMasterKeys) = 1

\* C23: a successful ChangeWalletPassphrase leaves the wallet locked if and
\* only if it was locked before the call.
C23_ChangeRestoresLockState ==
    (last.op = "ChangeWalletPassphrase" /\ last.ret)
        => (fLocked <=> last.fWasLocked)

\* The passphrase of a locked wallet has been changed.
C23_Witness ==
    /\ last.op = "ChangeWalletPassphrase" /\ last.ret
    /\ last.fWasLocked /\ fLocked
    /\ last.strOldWalletPassphrase # last.strNewWalletPassphrase
    /\ \E i \in DOMAIN crypt.mapMasterKeys :
           crypt.mapMasterKeys[i].under = last.strNewWalletPassphrase

\* C32: the shared state of the wallet is read and changed under cs_wallet,
\* and a decision taken on a state read is acted on in the same critical
\* section: while a caller of EncryptWallet that has found the wallet not
\* encrypted has its record still to store, the wallet is not encrypted.
C32_DecisionInCriticalSection ==
    \A c \in Callers : crypt.kMasterKey[c] # NoMasterKey => ~crypt.fUseCrypto

\* C33: of two concurrent calls of EncryptWallet on a wallet that is not
\* encrypted, one at most stores a master key record and encrypts the keys;
\* the call that comes to a wallet the other has encrypted returns failure,
\* changes no record and no lock state, and does not end the process.
C33_SecondEncryptFails ==
    [][(last'.op = "EncryptWallet" /\ crypt.fUseCrypto) =>
          /\ ~last'.ret /\ ~last'.fExited
          /\ crypt'.mapMasterKeys = crypt.mapMasterKeys
          /\ crypt'.nMasterKeyMaxID = crypt.nMasterKeyMaxID
          /\ crypt'.fUseCrypto = crypt.fUseCrypto
          /\ fLocked' = fLocked]_vars

\* C34: a call of ChangeWalletPassphrase whose old passphrase unlocks none of
\* the master key records fails and leaves the lock state and the master key
\* records as they were: a wallet that was unlocked is still unlocked.
C34_FailedChangeKeepsLockState ==
    [][(/\ last'.op = "ChangeWalletPassphrase"
        /\ \A i \in DOMAIN crypt.mapMasterKeys :
              crypt.mapMasterKeys[i].under # last'.strOldWalletPassphrase)
       => (/\ ~last'.ret
           /\ fLocked' = fLocked
           /\ crypt'.mapMasterKeys = crypt.mapMasterKeys
           /\ crypt'.dbMasterKeys = crypt.dbMasterKeys)]_vars

\* The step is the critical section of a call of EncryptWallet.
StoresMasterKey ==
    /\ last'.op = "EncryptWallet"
    /\ crypt.kMasterKey[last'.c] # NoMasterKey

\* C38: when the keys fail to encrypt in EncryptWallet, or the commit of the
\* durable transaction fails, the master key record is not made durable and
\* the process ends; a call whose critical section is entered returns only
\* with success, the keys encrypted, the wallet locked and the record durable
\* on a file-backed wallet.
C38_HalfEncryptedNeverReturns ==
    [][StoresMasterKey =>
          /\ (~last'.fKeysEncrypted \/ (args.fFileBacked /\ ~last'.fCommitted))
                => (/\ last'.fExited /\ crypt'.fExited /\ ~last'.ret
                    /\ crypt'.dbMasterKeys = crypt.dbMasterKeys)
          /\ last'.fExited => crypt'.dbMasterKeys = crypt.dbMasterKeys
          /\ ~last'.fExited =>
                /\ last'.ret /\ crypt'.fUseCrypto /\ fLocked'
                /\ args.fFileBacked =>
                      crypt'.nMasterKeyMaxID \in DOMAIN crypt'.dbMasterKeys]_vars

\* The process has ended on a commit that failed after the keys were encrypted.
C38_Witness ==
    /\ last.op = "EncryptWallet" /\ last.fExited /\ crypt.fExited
    /\ last.fKeysEncrypted /\ ~last.fCommitted
    /\ crypt.fUseCrypto /\ args.fFileBacked
    /\ crypt.dbMasterKeys = <<>>

\* ------------------------------------------------------------ serialization
\* The values one byte holds (256 in the program) and the bytes of an int64
\* (8 in the program): an int64 of the model has Int64Bytes digits in base
\* ByteBase, in two's complement.
ByteBase == 4
Int64Bytes == 2
Int64Range == ByteBase * ByteBase

\* The types serialized: unsigned char and int64 (not classes, written as
\* their memory representation), and vectors, sets, pairs and maps of them.
ByteT == [k |-> "byte"]
Int64T == [k |-> "int64"]
VectorT(T) == [k |-> "vector", of |-> T]
SetT(T) == [k |-> "set", of |-> T]
PairT(F, S) == [k |-> "pair", first |-> F, second |-> S]
MapT(K, V) == [k |-> "map", key |-> K, val |-> V]

\* const_varint: a size below the escape value is one byte, a larger one the
\* escape byte followed by the size as an integer of Int64Bytes bytes.
VarIntEscape == ByteBase - 1
WriteVarInt(n) ==
    IF n < VarIntEscape THEN <<n>>
    ELSE <<VarIntEscape, n % ByteBase, (n \div ByteBase) % ByteBase>>

\* A read from a stream that has ended fails and leaves the value as it was.
ReadByte(s) ==
    IF s = <<>> THEN [val |-> 0, rest |-> <<>>]
    ELSE [val |-> Head(s), rest |-> Tail(s)]

\* varint
ReadVarInt(s) ==
    Then(ReadByte(s), LAMBDA b :
        IF b.val < VarIntEscape THEN b
        ELSE Then(ReadByte(b.rest), LAMBDA lo :
             Then(ReadByte(lo.rest), LAMBDA hi :
                [val |-> lo.val + ByteBase * hi.val, rest |-> hi.rest])))

\* An int64 written with its most significant byte first.
WriteInt64BigEndian(n) ==
    Then(n % Int64Range, LAMBDA u : <<u \div ByteBase, u % ByteBase>>)

\* const_binary<int64> and binary<int64>: the memory representation, little
\* endian.
WriteInt64(n) ==
    Then(n % Int64Range, LAMBDA u : <<u % ByteBase, u \div ByteBase>>)
ReadInt64(s) ==
    Then(ReadByte(s), LAMBDA lo :
    Then(ReadByte(lo.rest), LAMBDA hi :
    Then(lo.val + ByteBase * hi.val, LAMBDA u :
        [val |-> IF 2 * u >= Int64Range THEN u - Int64Range ELSE u,
         rest |-> hi.rest])))

\* The elements of a set, or the keys of a map, in the order of its iterator.
RECURSIVE InOrder(_)
InOrder(S) ==
    IF S = {} THEN <<>>
    ELSE Then(CHOOSE x \in S : \A y \in S : x <= y, LAMBDA x :
              <<x>> \o InOrder(S \ {x}))

\* operator<< of a value t of type T: the bytes written.
RECURSIVE Write(_, _)
RECURSIVE WriteAll(_, _)
WriteAll(T, ts) ==
    IF ts = <<>> THEN <<>> ELSE Write(T, Head(ts)) \o WriteAll(T, Tail(ts))
Write(T, t) ==
    CASE T.k = "byte"   -> <<t>>
      [] T.k = "int64"  -> WriteInt64(t)
      [] T.k = "vector" -> WriteVarInt(Len(t)) \o WriteAll(T.of, t)
      [] T.k = "set"    -> WriteVarInt(Cardinality(t)) \o WriteAll(T.of, InOrder(t))
      [] T.k = "pair"   -> Write(T.first, t[1]) \o Write(T.second, t[2])
      [] T.k = "map"    ->
            WriteVarInt(Cardinality(DOMAIN t))
                \o WriteAll(PairT(T.key, T.val),
                            [i \in 1..Cardinality(DOMAIN t) |->
                                <<InOrder(DOMAIN t)[i], t[InOrder(DOMAIN t)[i]]>>])

\* std::map::insert of the pairs read, one after the other: a key already
\* there keeps its value.
RECURSIVE InsertAll(_, _)
InsertAll(m, ps) ==
    IF ps = <<>> THEN m
    ELSE InsertAll(IF Head(ps)[1] \in DOMAIN m THEN m
                   ELSE Put(m, Head(ps)[1], Head(ps)[2]),
                   Tail(ps))

\* operator>> of type T on the bytes s: the value read and the bytes left.
\* ReadAll reads n values of type T one after the other.
RECURSIVE Read(_, _)
RECURSIVE ReadAll(_, _, _)
ReadAll(T, n, s) ==
    IF n = 0 THEN [val |-> <<>>, rest |-> s]
    ELSE Then(Read(T, s), LAMBDA e :
         Then(ReadAll(T, n - 1, e.rest), LAMBDA r :
            [val |-> <<e.val>> \o r.val, rest |-> r.rest]))
Read(T, s) ==
    CASE T.k = "byte"   -> ReadByte(s)
      [] T.k = "int64"  -> ReadInt64(s)
      [] T.k = "vector" ->
            Then(ReadVarInt(s), LAMBDA n : ReadAll(T.of, n.val, n.rest))
      [] T.k = "set"    ->
            Then(ReadVarInt(s), LAMBDA n :
            Then(ReadAll(T.of, n.val, n.rest), LAMBDA r :
                [val |-> {r.val[i] : i \in DOMAIN r.val}, rest |-> r.rest]))
      [] T.k = "pair"   ->
            Then(Read(T.first, s), LAMBDA f :
            Then(Read(T.second, f.rest), LAMBDA g :
                [val |-> <<f.val, g.val>>, rest |-> g.rest]))
      [] T.k = "map"    ->
            Then(ReadVarInt(s), LAMBDA n :
            Then(ReadAll(PairT(T.key, T.val), n.val, n.rest), LAMBDA r :
                [val |-> InsertAll(<< >>, r.val), rest |-> r.rest]))

\* serialize(t) and deserialize<T>(s)
serialize(T, t) == Write(T, t)
deserialize(T, s) == Read(T, s).val

\* The values serialized: script bytes and spent bitmaps (vectors of bytes),
\* coin values (int64), outputs (pairs of a script and a value), vectors of
\* outputs, sets of values and maps from a value to a script.
Bytes == 0..(ByteBase - 1)
Int64s == {-(Int64Range \div 2), -1, 0, 1, (Int64Range \div 2) - 1}
SeqsUpTo(S, n) == UNION {[1..k -> S] : k \in 0..n}
Scripts == SeqsUpTo(Bytes, MaxLen)
ShortScripts == SeqsUpTo({0, ByteBase - 1}, 1)
OutputT == PairT(VectorT(ByteT), Int64T)
Outputs == ShortScripts \X {-1, 0, 1}
Types ==
    <<VectorT(ByteT), VectorT(Int64T), SetT(Int64T), OutputT, VectorT(OutputT),
      MapT(Int64T, VectorT(ByteT))>>
Serializable(type) ==
    CASE type = 1 -> Scripts
      [] type = 2 -> SeqsUpTo(Int64s, 2)
      [] type = 3 -> SUBSET Int64s
      [] type = 4 -> Outputs
      [] type = 5 -> SeqsUpTo(Outputs, 2)
                        \cup [1..MaxLen -> {<<<<>>, 1>>, <<<<0>>, -1>>}]
      [] type = 6 -> UNION {[D -> ShortScripts] : D \in SUBSET {-1, 0, 1}}

\* No wallet is involved.
InitSerial ==
    /\ mapWallet = << >>
    /\ blockChain = [final |-> << >>, depth |-> << >>, maturity |-> << >>]
    /\ sel = NoSel /\ conf = NoConf
    /\ PoolUnused
    /\ args = [fFileBacked |-> TRUE, keypool |-> 0]
    /\ resv = [c \in Callers |-> NoReservation]
    /\ kpLog = <<>> /\ kpThrew = FALSE
    /\ BookUnused

\* A value is serialized and the bytes are deserialized.
CallSerializeDeserialize ==
    /\ \E type \in DOMAIN Types :
        \E t \in Serializable(type) :
            \E bytes \in {serialize(Types[type], t)} :
                last' = [op |-> "deserialize", type |-> type, t |-> t,
                         bytes |-> bytes,
                         ret |-> deserialize(Types[type], bytes)]
    /\ UNCHANGED <<mapWallet, blockChain, crypt, sel, conf, setKeyPool, poolDb,
                   nKeys, fLocked, args, resv, kpLog, kpThrew, walletDb,
                   vWalletUpdated, vchDefaultKey, mapAddressBook,
                   mapRequestCount, accepted, send>>

NextSerial == CallSerializeDeserialize
SpecSerial == InitSerial /\ [][NextSerial]_vars

\* C25: for vectors, sets, maps and pairs of serializable elements,
\* deserialize<T>(serialize(t)) is equal to t, element for element and in the
\* same order.
C25_SerializationRoundTrip ==
    last.op = "deserialize" => last.ret = last.t

\* A vector of outputs long enough for its size to take the long form of the
\* varint has been read back.
C25_Witness ==
    /\ last.op = "deserialize"
    /\ last.type = 5
    /\ Len(last.t) >= VarIntEscape
    /\ last.bytes[1] = VarIntEscape
    /\ last.ret = last.t

=============================================================================
